---------------------------- MODULE Spec2Model ----------------------------
(***************************************************************************)
(* State-machine model of the storage core of SandboxDB:                   *)
(*   - BufferPool  (src/src/storage/buffer_pool/mod.rs)                     *)
(*   - Wal         (src/src/storage/buffer/wal.rs)                          *)
(*   - Page        (src/src/storage/file/page.rs)                           *)
(*   - File        (src/src/storage/file/mod.rs)                            *)
(*   - Metastore, Database, Table (src/src/storage/tablespace)              *)
(* Each component has its own specifications (Spec, SizeSpec and            *)
(* CatalogSpec; WalSpec; InsertDeleteSpec, PageSpec, ChecksumSpec,          *)
(* ExampleSpec, TupleSpec, FreeSlotsSpec and RoundTripSpec; FileSpec and    *)
(* TestFileSpec; SpaceSpec, HandleSpec and TableSpec) over the shared       *)
(* variable list; a specification leaves the variables of the other         *)
(* components at their initial values.                                      *)
(*                                                                         *)
(* A Rust panic (an unwrap on None, an out-of-range slice) is modelled as   *)
(* the component's status becoming "panicked", with the fields holding      *)
(* whatever the code had already written when it panicked.                  *)
(***************************************************************************)
EXTENDS Integers, Sequences, FiniteSets, TLC

VARIABLES
    \* ---- BufferPool ----
    size,            \* BufferPool.size
    pages,           \* BufferPool.pages         : key -> header.page_size
    page_metas,      \* BufferPool.page_metas    : key -> PageMeta
    page_catalogs,   \* BufferPool.page_catalogs : key -> catalog table id
    catalog_tables,  \* BufferPool.catalog.tables (its key set)
    disk_tables,     \* "<db>.<table>" ids present in the metastore on disk
    now,             \* the last value Local::now().timestamp_millis() returned
    pool_status,     \* "ok" | "panicked"
    pool_last,       \* the last BufferPool call: its arguments and outcome
    \* ---- Wal ----
    wal_file,        \* the bytes of <path>/.wal on disk
    wal_cursor,      \* the position of Wal.file, the open handle
    checkpoint,      \* Wal.checkpoint
    wal_written,     \* rows handed to write_transaction so far
    wal_status,      \* "ok" | "panicked"
    wal_last,        \* the last Wal call: its arguments and outcome
    \* ---- Page ----
    page_size,       \* Page.header.page_size
    checksum,        \* Page.header.checksum
    slots,           \* Page.header.slots
    tuples,          \* Page.tuples : (offset, length) -> Tuple
    overflow_checks, \* the build profile: TRUE panics on integer overflow
    page_calls,      \* calls made on the page so far
    page_status,     \* "ok" | "panicked"
    page_last,       \* the last Page call: its arguments and outcome
    \* ---- File ----
    file_size,       \* File.header.file_size
    file_pages,      \* File.pages : index -> header.page_size of the page
    file_status,     \* "ok" | "panicked"
    file_last,       \* the last File call: its arguments and outcome
    \* ---- Metastore, Database, Table ----
    database_paths,  \* Metastore.database_paths : name -> location
    databases,       \* Metastore.databases      : name -> Database
    table_paths,     \* Database.table_paths     : name -> location
    database_tables, \* Database.tables          : name -> Table
    file_paths,      \* Table.file_paths (its key set)
    handle,          \* the Database the caller holds: name and location
    metastore_json,  \* .meta/metastore: the saved database_paths
    database_json,   \* .meta/database of a location: name and table_paths
    table_json,      \* .meta/table of a location: name and schema
    space_last       \* the last tablespace call: its arguments and outcome

pool_vars == <<size, pages, page_metas, page_catalogs, catalog_tables,
               disk_tables, now, pool_status, pool_last>>

wal_vars == <<wal_file, wal_cursor, checkpoint, wal_written, wal_status,
              wal_last>>

page_vars == <<page_size, checksum, slots, tuples, overflow_checks,
               page_calls, page_status, page_last>>

file_vars == <<file_size, file_pages, file_status, file_last>>

space_vars == <<database_paths, databases, table_paths, database_tables,
                file_paths, space_last, handle, metastore_json,
                database_json, table_json>>

vars == <<pool_vars, wal_vars, page_vars, file_vars, space_vars>>

-----------------------------------------------------------------------------
(* Bounds of the model *)

\* Local::now().timestamp_millis() is StartTime when the pool is built and
\* advances by at most MaxTicks milliseconds during a run.
StartTime == 1000
MaxTicks == 1
\* count_access is incremented only while below MaxCount.
MaxCount == 2

\* Pool capacities (BufferPool::build's `size`): the one of the repository's
\* tests under Spec, another one under SizeSpec.
Sizes == {100}
OtherSizes == {200}
\* header.page_size of the pages handed to load_page / update_page.
PageSizes == {2, 92}
\* Catalog ids that exist on disk from the start / may be created later.
InitialTables == {"d.t"}
\* Catalog ids handed to load_page and get_pages_by_table; "d.u" is not a
\* table of the metastore.
CatalogIds == {"d.t", "d.u"}
\* (catalog_id, file_id, page_id) triples handed to load_page.
Triples == {<<"d.t", "0", 0>>, <<"d.t", "0", 1>>, <<"d.t", "0", 2>>,
            <<"d.u", "0", 0>>}

-----------------------------------------------------------------------------
(* Program constants, in hundredths: 0.95 and 0.05 *)

BUFFER_LIMIT_USED_SIZE == 95
VACUUM_SIZE == 5

-----------------------------------------------------------------------------
(* Helpers *)

RECURSIVE SumOver(_, _)
SumOver(f, S) ==
    IF S = {} THEN 0
    ELSE LET k == CHOOSE x \in S : TRUE IN f[k] + SumOver(f, S \ {k})

\* Sum in bytes of header.page_size over the buffered pages.
UsedBytes(pg) == SumOver(pg, DOMAIN pg)

Restrict(f, S) == [k \in S |-> f[k]]

Put(f, k, v) == [x \in (DOMAIN f) \cup {k} |-> IF x = k THEN v ELSE f[x]]

MaxOf(S) == CHOOSE m \in S : \A x \in S : x <= m

MinOf(S) == CHOOSE m \in S : \A x \in S : m <= x

-----------------------------------------------------------------------------
(* BufferPool: pure parts *)

\* used_space(): used bytes / size * 100, a percentage.  Returned as the
\* numerator of the fraction whose denominator is `sz`.
used_space(pg) == UsedBytes(pg) * 100

\* The high-water test of load_page and update_page:
\*   used_space() + page_size > BUFFER_LIMIT_USED_SIZE * size
\* with both sides multiplied by 100 * sz.
OverLimit(sz, pg, ps) ==
    used_space(pg) * 100 + ps * 100 * sz > BUFFER_LIMIT_USED_SIZE * sz * sz

\* crc32 of catalog_id bytes ++ file_id bytes ++ page_id bytes.  The key is
\* modelled by the concatenated byte string itself (CRC-32 taken as
\* injective on the strings of the model).
buffer_page_key(c, f, i) == c \o f \o ToString(i)

KeyOf(t) == buffer_page_key(t[1], t[2], t[3])

Keys == {KeyOf(t) : t \in Triples}

\* PageMeta::new() and PageMeta::increment_access() at clock value t.
NewMeta(t) == [last_access |-> t, count_access |-> 1]

\* A faulty increment_access: the time of the access is stored, the access
\* is not counted.
touch_access(m, t) ==
    [last_access |-> t, count_access |-> m.count_access]

increment_access(m, t) ==
    [last_access |-> t, count_access |-> m.count_access + 1]

max_last_access(mt) == MaxOf({mt[k].last_access : k \in DOMAIN mt})

max_count_access(mt) == MaxOf({mt[k].count_access : k \in DOMAIN mt})

\* a.0 / max_last + a.1 / max_count, times max_last * max_count.
Score(mt, k) ==
    mt[k].last_access * max_count_access(mt)
        + mt[k].count_access * max_last_access(mt)

Perms(S) ==
    {s \in [1..Cardinality(S) -> S] :
        \A i, j \in 1..Cardinality(S) : i # j => s[i] # s[j]}

\* A faulty get_page_access_sorted: the keys in the HashMap's iteration
\* order, not sorted.
get_page_access_unsorted(mt) == Perms(DOMAIN mt)

\* get_page_access_sorted(): the keys in ascending score.  The sort is
\* stable over the HashMap's iteration order, so keys of equal score come in
\* any order.
get_page_access_sorted(mt) ==
    {s \in Perms(DOMAIN mt) :
        \A i \in 1..(Len(s) - 1) : Score(mt, s[i]) <= Score(mt, s[i + 1])}

\* The while loop of vacuum().  `stf` is size_to_free times 100.
RECURSIVE VacuumLoop(_, _, _, _, _, _)
VacuumLoop(stf, sorted, pg, mt, ct, ev) ==
    IF sorted = <<>>
    THEN \* meta_sorted.first().unwrap() on an empty vector
         [pages |-> pg, metas |-> mt, catalogs |-> ct, evicted |-> ev,
          panicked |-> TRUE]
    ELSE IF stf > pg[Head(sorted)] * 100
    THEN LET k == Head(sorted) IN
         VacuumLoop(stf - pg[k] * 100, Tail(sorted),
                    Restrict(pg, DOMAIN pg \ {k}),
                    Restrict(mt, DOMAIN mt \ {k}),
                    Restrict(ct, DOMAIN ct \ {k}),
                    Append(ev, k))
    ELSE [pages |-> pg, metas |-> mt, catalogs |-> ct, evicted |-> ev,
          panicked |-> FALSE]

\* A faulty vacuum: it forgets self.page_catalogs.remove(page_key).
vacuum_keeps_catalogs(sz, pg, mt, ct, sorted) ==
    [VacuumLoop(sz * VACUUM_SIZE, sorted, pg, mt, ct, <<>>)
        EXCEPT !.catalogs = ct]

\* A faulty vacuum: it keeps evicting until the bytes freed reach
\* VACUUM_SIZE * size (it tests size_to_free > 0).
RECURSIVE VacuumUntilFreed(_, _, _, _, _, _)
VacuumUntilFreed(stf, sorted, pg, mt, ct, ev) ==
    IF sorted = <<>>
    THEN [pages |-> pg, metas |-> mt, catalogs |-> ct, evicted |-> ev,
          panicked |-> stf > 0]
    ELSE IF stf > 0
    THEN LET k == Head(sorted) IN
         VacuumUntilFreed(stf - pg[k] * 100, Tail(sorted),
                          Restrict(pg, DOMAIN pg \ {k}),
                          Restrict(mt, DOMAIN mt \ {k}),
                          Restrict(ct, DOMAIN ct \ {k}),
                          Append(ev, k))
    ELSE [pages |-> pg, metas |-> mt, catalogs |-> ct, evicted |-> ev,
          panicked |-> FALSE]

vacuum_until_freed(sz, pg, mt, ct, sorted) ==
    VacuumUntilFreed(sz * VACUUM_SIZE, sorted, pg, mt, ct, <<>>)

\* vacuum() for one order the sort may produce.
vacuum(sz, pg, mt, ct, sorted) ==
    VacuumLoop(sz * VACUUM_SIZE, sorted, pg, mt, ct, <<>>)

\* The orders get_page_access_sorted may return; <<>> stands for its panic
\* (max_last_access unwraps None) on an empty pool.
SortOutcomes(mt) ==
    IF DOMAIN mt = {} THEN {<<>>} ELSE get_page_access_sorted(mt)

NoVacuum(pg, mt, ct) ==
    [pages |-> pg, metas |-> mt, catalogs |-> ct, evicted |-> <<>>,
     panicked |-> FALSE]

EmptyMap == [k \in {} |-> 0]

Last(op, key, ps, ret, vac, ev) ==
    [op |-> op, key |-> key, ps |-> ps, ret |-> ret, vacuumed |-> vac,
     catalog_id |-> ""]

\* the record of a load_page call, with its catalog_id
LoadLast(c, key, ps, ret, vac, ev) ==
    [Last("load_page", key, ps, ret, vac, ev) EXCEPT !.catalog_id = c]

-----------------------------------------------------------------------------
(* BufferPool: operations *)

PoolInit(sizes) ==
    /\ size \in sizes
    /\ pages = EmptyMap
    /\ page_metas = EmptyMap
    /\ page_catalogs = EmptyMap
    /\ catalog_tables = InitialTables
    /\ disk_tables = InitialTables
    /\ now = StartTime
    /\ pool_status = "ok"
    /\ pool_last = Last("build", "", 0, "ok", FALSE, <<>>)

\* Time passes between two calls: the millisecond clock advances.
Tick ==
    /\ pool_status = "ok"
    /\ UNCHANGED <<wal_vars, page_vars, file_vars, space_vars>>
    /\ now < StartTime + MaxTicks
    /\ now' = now + 1
    /\ UNCHANGED <<size, pages, page_metas, page_catalogs, catalog_tables,
                   disk_tables, pool_status, pool_last>>

\* The values Local::now().timestamp_millis() may return during a call.
Clock == {now}

\* The values a later Local::now() of the same call may return.
ClockAfter(t) == IF t < StartTime + MaxTicks THEN {t, t + 1} ELSE {t}

\* load_page(page, catalog_id, file_id, page_id), page.header.page_size = ps.
load_page(c, f, i, ps) ==
    /\ pool_status = "ok"
    /\ UNCHANGED <<wal_vars, page_vars, file_vars, space_vars>>
    /\ LET k == buffer_page_key(c, f, i)
           need_refresh == c \notin catalog_tables
       IN
       \E refresh_ok \in (IF need_refresh THEN BOOLEAN ELSE {TRUE}) :
         IF ~refresh_ok
         THEN \* self.catalog.refresh()? returns the error
              /\ pool_last' = LoadLast(c, k, ps, "err", FALSE, <<>>)
              /\ UNCHANGED <<size, pages, page_metas, page_catalogs,
                             catalog_tables, disk_tables, now, pool_status>>
         ELSE
           LET tables == IF need_refresh
                         THEN catalog_tables \cup disk_tables
                         ELSE catalog_tables
               over == OverLimit(size, pages, ps)
           IN
           \E sorted \in (IF over THEN SortOutcomes(page_metas) ELSE {<<>>}),
              t \in Clock :
             LET v == IF over
                      THEN vacuum(size, pages, page_metas, page_catalogs,
                                  sorted)
                      ELSE NoVacuum(pages, page_metas, page_catalogs)
             IN
             /\ catalog_tables' = tables
             /\ UNCHANGED <<size, disk_tables>>
             /\ IF v.panicked
                THEN /\ pages' = v.pages
                     /\ page_metas' = v.metas
                     /\ page_catalogs' = v.catalogs
                     /\ now' = now
                     /\ pool_status' = "panicked"
                     /\ pool_last' =
                          LoadLast(c, k, ps, "panic", over, v.evicted)
                ELSE /\ pages' = Put(v.pages, k, ps)
                     /\ page_metas' = Put(v.metas, k, NewMeta(t))
                     /\ now' = t
                     /\ IF c \in tables
                        THEN /\ page_catalogs' = Put(v.catalogs, k, c)
                             /\ pool_status' = "ok"
                             /\ pool_last' =
                                  LoadLast(c, k, ps, "ok", over, v.evicted)
                        ELSE \* self.catalog.tables.get(catalog_id).unwrap()
                             /\ page_catalogs' = v.catalogs
                             /\ pool_status' = "panicked"
                             /\ pool_last' =
                                  LoadLast(c, k, ps, "panic", over, v.evicted)


\* update_page(page_key, page), page.header.page_size = ps.
update_page(k, ps) ==
    /\ pool_status = "ok"
    /\ UNCHANGED <<wal_vars, page_vars, file_vars, space_vars>>
    /\ IF k \notin DOMAIN pages
       THEN /\ pool_last' = Last("update_page", k, ps, "err", FALSE, <<>>)
            /\ UNCHANGED <<size, pages, page_metas, page_catalogs,
                           catalog_tables, disk_tables, now, pool_status>>
       ELSE
         /\ page_metas[k].count_access < MaxCount
         /\ LET over == OverLimit(size, pages, ps) IN
            \E sorted \in (IF over THEN SortOutcomes(page_metas) ELSE {<<>>}),
               t \in Clock :
              LET v == IF over
                       THEN vacuum(size, pages, page_metas, page_catalogs,
                                   sorted)
                       ELSE NoVacuum(pages, page_metas, page_catalogs)
              IN
              /\ page_catalogs' = v.catalogs
              /\ UNCHANGED <<size, catalog_tables, disk_tables>>
              /\ IF v.panicked
                 THEN /\ pages' = v.pages
                      /\ page_metas' = v.metas
                      /\ now' = now
                      /\ pool_status' = "panicked"
                      /\ pool_last' =
                           Last("update_page", k, ps, "panic", over, v.evicted)
                 ELSE /\ pages' = Put(v.pages, k, ps)
                      /\ IF k \in DOMAIN v.metas
                         THEN /\ page_metas' =
                                   Put(v.metas, k, increment_access(v.metas[k], t))
                              /\ now' = t
                              /\ pool_status' = "ok"
                              /\ pool_last' =
                                   Last("update_page", k, ps, "ok", over,
                                        v.evicted)
                         ELSE \* page_metas.get_mut(page_key).unwrap()
                              /\ page_metas' = v.metas
                              /\ now' = now
                              /\ pool_status' = "panicked"
                              /\ pool_last' =
                                   Last("update_page", k, ps, "panic", over,
                                        v.evicted)

\* A faulty get_page: the lookup in page_metas creates the entry it does not
\* find, so an unknown key gets a PageMeta before the error is returned.
get_page_creates_meta(k) ==
    /\ pool_status = "ok"
    /\ UNCHANGED <<wal_vars, page_vars, file_vars, space_vars>>
    /\ UNCHANGED <<size, pages, page_catalogs, catalog_tables, disk_tables>>
    /\ IF k \in DOMAIN pages
       THEN /\ k \in DOMAIN page_metas => page_metas[k].count_access < MaxCount
            /\ \E t \in Clock :
                 /\ page_metas' =
                      Put(page_metas, k,
                          IF k \in DOMAIN page_metas
                          THEN increment_access(page_metas[k], t)
                          ELSE NewMeta(t))
                 /\ now' = t
                 /\ pool_status' = "ok"
                 /\ pool_last' = Last("get_page", k, 0, "ok", FALSE, <<>>)
       ELSE \E t \in Clock :
              /\ page_metas' = Put(page_metas, k, NewMeta(t))
              /\ now' = t
              /\ pool_last' = Last("get_page", k, 0, "err", FALSE, <<>>)
              /\ UNCHANGED pool_status

\* get_page(key)
get_page(k) ==
    /\ pool_status = "ok"
    /\ UNCHANGED <<wal_vars, page_vars, file_vars, space_vars>>
    /\ UNCHANGED <<size, pages, page_catalogs, catalog_tables, disk_tables>>
    /\ IF k \in DOMAIN pages
       THEN /\ k \in DOMAIN page_metas => page_metas[k].count_access < MaxCount
            /\ IF k \in DOMAIN page_metas
               THEN \E t \in Clock :
                      /\ page_metas' =
                           Put(page_metas, k, increment_access(page_metas[k], t))
                      /\ now' = t
                      /\ pool_status' = "ok"
                      /\ pool_last' = Last("get_page", k, 0, "ok", FALSE, <<>>)
               ELSE /\ pool_status' = "panicked"
                    /\ pool_last' = Last("get_page", k, 0, "panic", FALSE, <<>>)
                    /\ UNCHANGED <<page_metas, now>>
       ELSE /\ pool_last' = Last("get_page", k, 0, "err", FALSE, <<>>)
            /\ UNCHANGED <<page_metas, now, pool_status>>

\* get_page_catalog(key)
get_page_catalog(k) ==
    /\ pool_status = "ok"
    /\ UNCHANGED <<wal_vars, page_vars, file_vars, space_vars>>
    /\ UNCHANGED <<size, pages, page_catalogs, catalog_tables, disk_tables>>
    /\ IF k \in DOMAIN page_catalogs
       THEN /\ k \in DOMAIN page_metas => page_metas[k].count_access < MaxCount
            /\ IF k \in DOMAIN page_metas
               THEN \E t \in Clock :
                      /\ page_metas' =
                           Put(page_metas, k, increment_access(page_metas[k], t))
                      /\ now' = t
                      /\ pool_status' = "ok"
                      /\ pool_last' =
                           Last("get_page_catalog", k, 0, "ok", FALSE, <<>>)
               ELSE /\ pool_status' = "panicked"
                    /\ pool_last' =
                         Last("get_page_catalog", k, 0, "panic", FALSE, <<>>)
                    /\ UNCHANGED <<page_metas, now>>
       ELSE /\ pool_last' = Last("get_page_catalog", k, 0, "err", FALSE, <<>>)
            /\ UNCHANGED <<page_metas, now, pool_status>>

\* get_pages_by_table(catalog_key).  The filter closure unwraps
\* catalog.tables.get(catalog_key) once per entry of page_catalogs, so an
\* unknown catalog_key panics only when some page is buffered.  Every
\* matching key gets its own Local::now(), in the HashMap's iteration
\* order: the keys visited first (`early`) see `now`, the others may see the
\* next millisecond.
get_pages_by_table(c) ==
    /\ pool_status = "ok"
    /\ UNCHANGED <<wal_vars, page_vars, file_vars, space_vars>>
    /\ UNCHANGED <<size, pages, page_catalogs, catalog_tables, disk_tables>>
    /\ IF c \notin catalog_tables /\ DOMAIN page_catalogs # {}
       THEN /\ pool_status' = "panicked"
            /\ pool_last' =
                 Last("get_pages_by_table", c, 0, "panic", FALSE, <<>>)
            /\ UNCHANGED <<page_metas, now>>
       ELSE LET keys == {k \in DOMAIN page_catalogs : page_catalogs[k] = c} IN
            /\ \A k \in keys \cap DOMAIN page_metas :
                   page_metas[k].count_access < MaxCount
            /\ IF keys \subseteq DOMAIN page_metas
               THEN \E t2 \in ClockAfter(now) :
                    \E early \in SUBSET keys :
                      /\ (t2 = now) = (early = keys)
                      /\ page_metas' =
                           [k \in DOMAIN page_metas |->
                              IF k \in early
                              THEN increment_access(page_metas[k], now)
                              ELSE IF k \in keys
                              THEN increment_access(page_metas[k], t2)
                              ELSE page_metas[k]]
                      /\ now' = t2
                      /\ pool_status' = "ok"
                      /\ pool_last' =
                           Last("get_pages_by_table", c, 0, "ok", FALSE, <<>>)
               ELSE /\ pool_status' = "panicked"
                    /\ pool_last' =
                         Last("get_pages_by_table", c, 0, "panic", FALSE, <<>>)
                    /\ UNCHANGED <<page_metas, now>>

\* A direct call of the public vacuum().
vacuum_call ==
    /\ pool_status = "ok"
    /\ UNCHANGED <<wal_vars, page_vars, file_vars, space_vars>>
    /\ \E sorted \in SortOutcomes(page_metas) :
         LET v == vacuum(size, pages, page_metas, page_catalogs, sorted) IN
         /\ pages' = v.pages
         /\ page_metas' = v.metas
         /\ page_catalogs' = v.catalogs
         /\ pool_status' = IF v.panicked THEN "panicked" ELSE "ok"
         /\ pool_last' =
              Last("vacuum", "", 0, IF v.panicked THEN "panic" ELSE "ok",
                   TRUE, v.evicted)
    /\ UNCHANGED <<size, catalog_tables, disk_tables, now>>

PoolNext ==
    \/ Tick
    \/ \E tr \in Triples, ps \in PageSizes : load_page(tr[1], tr[2], tr[3], ps)
    \/ \E k \in Keys, ps \in PageSizes : update_page(k, ps)
    \/ \E k \in Keys : get_page(k)
    \/ \E k \in Keys : get_page_catalog(k)
    \/ \E c \in CatalogIds : get_pages_by_table(c)
    \/ vacuum_call

-----------------------------------------------------------------------------
(* Wal: src/src/storage/buffer/wal.rs, rows of src/.../buffer/wal_row.rs *)

\* The bytes of the unsigned integer n on w bytes, little endian (bincode's
\* fixed-width integer encoding).
RECURSIVE LE(_, _)
LE(n, w) == IF w = 0 THEN <<>> ELSE <<n % 256>> \o LE(n \div 256, w - 1)

Range(s) == {s[i] : i \in 1..Len(s)}

\* Tuple { header: TupleHeader { visibility, nulls }, data }
TestTuple ==
    [visibility |-> 0, nulls |-> <<0, 0, 1, 0>>, data |-> [i \in 1..32 |-> 4]]

Operations == <<"Insert", "Update", "Delete">>

\* WalRow::insert(transaction_id, transaction_size, catalog_table_id,
\* new_data) created at millisecond d.  Integer fields are held as the
\* little-endian bytes of their fixed width, strings as their UTF-8 bytes.
insert_row(d, transaction_id, transaction_size, catalog_table_id, new_data) ==
    [date_created     |-> LE(d, 8),
     transaction_id   |-> LE(transaction_id, 4),
     transaction_size |-> LE(transaction_size, 4),
     catalog_table_id |-> catalog_table_id,
     operation        |-> "Insert",
     old_data         |-> <<>>,
     new_data         |-> <<new_data>>,
     buffer_page_id   |-> <<>>,
     file_id          |-> <<>>,
     page_id          |-> <<>>,
     slot             |-> <<>>]

\* WalRow::delete(transaction_id, transaction_size, catalog_table_id,
\* old_data, id)
delete_row(d, transaction_id, transaction_size, catalog_table_id, old_data, id) ==
    [date_created     |-> LE(d, 8),
     transaction_id   |-> LE(transaction_id, 4),
     transaction_size |-> LE(transaction_size, 4),
     catalog_table_id |-> catalog_table_id,
     operation        |-> "Delete",
     old_data         |-> <<old_data>>,
     new_data         |-> <<>>,
     buffer_page_id   |-> <<LE(id[1], 4)>>,
     file_id          |-> <<LE(id[2], 4)>>,
     page_id          |-> <<LE(id[3], 4)>>,
     slot             |-> <<<<LE(id[4], 4), LE(id[5], 4)>>>>]

\* The rows handed to write_transaction: the row of the repository's tests
\* (transaction 23 on table "87"), a delete on table "8" (another length),
\* and the insert of transaction 10, whose id is the byte 0x0A.
WalRows ==
    {insert_row(7, 23, 66, <<56, 55>>, TestTuple),
     delete_row(7, 23, 66, <<56>>, TestTuple, <<1, 2, 3, 4, 5>>),
     insert_row(7, 10, 66, <<56, 55>>, TestTuple)}

\* Rows written so far, over the life of the model.
MaxWalRows == 3

\* Rows of one write_transaction call.
MaxTransaction == 2

Transactions == UNION {[1..n -> WalRows] : n \in 1..MaxTransaction}

\* bincode::serialize of a Tuple
TupleBytes(t) ==
    <<t.visibility>> \o LE(Len(t.nulls), 8) \o t.nulls
                     \o LE(Len(t.data), 8) \o t.data

IdBytes(b) == b

SlotBytes(s) == s[1] \o s[2]

\* bincode::serialize of a value of the type
ValueBytes(v, type) ==
    CASE type = "Tuple" -> TupleBytes(v)
      [] type = "u32" -> IdBytes(v)
      [] type = "(u32, u32)" -> SlotBytes(v)

\* bincode::serialize of an Option<type>: tag 0, or tag 1 and the value
OptionBytes(o, type) ==
    IF o = <<>> THEN <<0>> ELSE <<1>> \o ValueBytes(o[1], type)

OperationIndex(op) == CHOOSE i \in 1..3 : Operations[i] = op

\* Encoding::as_bytes of a WalRow: bincode::serialize, the fields in
\* declaration order.
as_bytes(r) ==
    r.date_created \o r.transaction_id \o r.transaction_size
      \o LE(Len(r.catalog_table_id), 8) \o r.catalog_table_id
      \o LE(OperationIndex(r.operation) - 1, 4)
      \o OptionBytes(r.old_data, "Tuple")
      \o OptionBytes(r.new_data, "Tuple")
      \o OptionBytes(r.buffer_page_id, "u32")
      \o OptionBytes(r.file_id, "u32")
      \o OptionBytes(r.page_id, "u32")
      \o OptionBytes(r.slot, "(u32, u32)")

\* ---- bincode::deserialize: a reader over bytes b at position p ----
Failed == [ok |-> FALSE, pos |-> 0, val |-> <<>>]

Done(p, v) == [ok |-> TRUE, pos |-> p, val |-> v]

\* the next n bytes
Take(b, p, n) ==
    IF p + n <= Len(b) THEN Done(p + n, SubSeq(b, p + 1, p + n)) ELSE Failed

\* a u64 length prefix followed by that many bytes; a length of 2^24 or more
\* exceeds every byte string of the model and ends in UnexpectedEof
TakeVec(b, p) ==
    LET n == Take(b, p, 8) IN
    IF ~n.ok \/ (\E i \in 4..8 : n.val[i] # 0)
    THEN Failed
    ELSE Take(b, n.pos, n.val[1] + 256 * n.val[2] + 65536 * n.val[3])

\* a String: a byte vector that must be UTF-8 (of single-byte characters;
\* the byte strings of the model hold no byte above 0x7F)
TakeString(b, p) ==
    LET s == TakeVec(b, p) IN
    IF s.ok /\ (\A x \in Range(s.val) : x < 128) THEN s ELSE Failed

TakeTuple(b, p) ==
    LET v == Take(b, p, 1) IN
    IF ~v.ok THEN Failed ELSE
    LET n == TakeVec(b, v.pos) IN
    IF ~n.ok THEN Failed ELSE
    LET d == TakeVec(b, n.pos) IN
    IF ~d.ok THEN Failed ELSE
    Done(d.pos, [visibility |-> v.val[1], nulls |-> n.val, data |-> d.val])

TakeId(b, p) == Take(b, p, 4)

TakeSlot(b, p) ==
    LET o == Take(b, p, 4) IN
    IF ~o.ok THEN Failed ELSE
    LET l == Take(b, o.pos, 4) IN
    IF ~l.ok THEN Failed ELSE Done(l.pos, <<o.val, l.val>>)

\* bincode::deserialize of a value of the type
TakeValue(b, p, type) ==
    CASE type = "Tuple" -> TakeTuple(b, p)
      [] type = "u32" -> TakeId(b, p)
      [] type = "(u32, u32)" -> TakeSlot(b, p)

\* an Option<type>: tag 0 is None, tag 1 is Some, any other tag is an error
TakeOption(b, p, type) ==
    LET t == Take(b, p, 1) IN
    IF ~t.ok THEN Failed
    ELSE IF t.val[1] = 0 THEN Done(t.pos, <<>>)
    ELSE IF t.val[1] = 1
         THEN LET v == TakeValue(b, t.pos, type) IN
              IF v.ok THEN Done(v.pos, <<v.val>>) ELSE Failed
    ELSE Failed

\* the enum Operation: a u32 variant index below 3
TakeOperation(b, p) ==
    LET t == Take(b, p, 4) IN
    IF t.ok /\ t.val[1] < 3 /\ t.val[2] = 0 /\ t.val[3] = 0 /\ t.val[4] = 0
    THEN Done(t.pos, Operations[t.val[1] + 1])
    ELSE Failed

\* the fields of WalRow in declaration order, by the reader of each
RowFields ==
    <<"i64", "u32", "u32", "String", "Operation", "Option<Tuple>",
      "Option<Tuple>", "Option<u32>", "Option<u32>", "Option<u32>",
      "Option<(u32, u32)>">>

TakeField(b, p, type) ==
    CASE type = "i64" -> Take(b, p, 8)
      [] type = "u32" -> Take(b, p, 4)
      [] type = "String" -> TakeString(b, p)
      [] type = "Operation" -> TakeOperation(b, p)
      [] type = "Option<Tuple>" -> TakeOption(b, p, "Tuple")
      [] type = "Option<u32>" -> TakeOption(b, p, "u32")
      [] type = "Option<(u32, u32)>" -> TakeOption(b, p, "(u32, u32)")

\* the fields from the k-th on, after the fields vals read up to position p
RECURSIVE TakeFields(_, _, _, _)
TakeFields(b, k, p, vals) ==
    IF k > Len(RowFields) THEN Done(p, vals)
    ELSE CHOOSE r \in {IF f.ok
                       THEN TakeFields(b, k + 1, f.pos, Append(vals, f.val))
                       ELSE Failed : f \in {TakeField(b, p, RowFields[k])}} :
             TRUE

\* Encoding::from_bytes of a WalRow: bincode::deserialize, which reads the
\* fields in declaration order and ignores bytes left after the last field.
from_bytes(b) ==
    CHOOSE r \in {IF f.ok
                  THEN Done(f.pos,
                            [date_created     |-> f.val[1],
                             transaction_id   |-> f.val[2],
                             transaction_size |-> f.val[3],
                             catalog_table_id |-> f.val[4],
                             operation        |-> f.val[5],
                             old_data         |-> f.val[6],
                             new_data         |-> f.val[7],
                             buffer_page_id   |-> f.val[8],
                             file_id          |-> f.val[9],
                             page_id          |-> f.val[10],
                             slot             |-> f.val[11]])
                  ELSE Failed : f \in {TakeFields(b, 1, 0, <<>>)}} : TRUE

\* what write_transaction writes for rows: each row's bytes, then b"\n"
RECURSIVE EncodeRows(_)
EncodeRows(rows) ==
    IF rows = <<>> THEN <<>>
    ELSE as_bytes(Head(rows)) \o <<10>> \o EncodeRows(Tail(rows))

\* slice.split(|&b| b == b'\n'): the segments between the separators
Split(b) ==
    LET seps == {i \in 1..Len(b) : b[i] = 10}
        n == Cardinality(seps)
        \* the position of the j-th separator; 0 and Len(b) + 1 bound the slice
        Sep(j) == IF j = 0 THEN 0
                  ELSE IF j = n + 1 THEN Len(b) + 1
                  ELSE CHOOSE i \in seps :
                           Cardinality({x \in seps : x < i}) = j - 1
    IN  [j \in 1..(n + 1) |-> SubSeq(b, Sep(j - 1) + 1, Sep(j) - 1)]

\* File::write_all at position pos of a file opened without append: the
\* bytes overwrite what is there and extend the file past its end.
WriteAt(file, pos, data) ==
    LET base == IF pos > Len(file)
                THEN file \o [i \in 1..(pos - Len(file)) |-> 0]
                ELSE file
    IN  SubSeq(base, 1, pos) \o data
          \o SubSeq(base, pos + Len(data) + 1, Len(base))

\* Wal::read with the seek to `start`: the outcome for the file and the
\* checkpoint cp.  file_buffer[..file_buffer.len() - 1] panics on an empty
\* buffer and from_bytes(..).unwrap() on a segment that does not decode; the
\* handle is then at the end of what was read and checkpoint is not written.
ReadFrom(file, start, cp) ==
    LET file_buffer == IF start >= Len(file) THEN <<>>
                       ELSE SubSeq(file, start + 1, Len(file))
        end == IF start > Len(file) THEN start ELSE Len(file)
        panic == [panicked |-> TRUE, rows |-> <<>>, cursor |-> end,
                  checkpoint |-> cp]
    IN
    IF file_buffer = <<>> THEN panic
    ELSE LET segs == Split(SubSeq(file_buffer, 1, Len(file_buffer) - 1))
             dec == [i \in 1..Len(segs) |-> from_bytes(segs[i])]
         IN  IF \E i \in 1..Len(segs) : ~dec[i].ok THEN panic
             ELSE [panicked |-> FALSE,
                   rows |-> [i \in 1..Len(segs) |-> dec[i].val],
                   cursor |-> end, checkpoint |-> end]

\* a read that seeks to the start of the file instead of the checkpoint
read_from_start(file, cp) == ReadFrom(file, 0, cp)

\* Wal::read: self.file.seek(SeekFrom::Start(self.checkpoint))
read(file, cp) == ReadFrom(file, cp, cp)

WalLast(op, rows, ret) == [op |-> op, rows |-> rows, ret |-> ret]

\* Wal::build on a directory without a .wal file
WalInit ==
    /\ wal_file = <<>>
    /\ wal_cursor = 0
    /\ checkpoint = 0
    /\ wal_written = 0
    /\ wal_status = "ok"
    /\ wal_last = WalLast("build", <<>>, "ok")

\* The Wal is dropped and Wal::build opens the same directory again: the
\* file keeps its bytes, the new handle is at 0 and checkpoint is 0.
wal_build ==
    /\ wal_status = "ok"
    /\ UNCHANGED <<pool_vars, page_vars, file_vars, space_vars>>
    /\ wal_cursor' = 0
    /\ checkpoint' = 0
    /\ wal_last' = WalLast("build", <<>>, "ok")
    /\ UNCHANGED <<wal_file, wal_written, wal_status>>

\* Wal::write_transaction(rows)
write_transaction(rows) ==
    /\ wal_status = "ok"
    /\ UNCHANGED <<pool_vars, page_vars, file_vars, space_vars>>
    /\ wal_written + Len(rows) <= MaxWalRows
    /\ wal_written' = wal_written + Len(rows)
    /\ wal_file' = WriteAt(wal_file, wal_cursor, EncodeRows(rows))
    /\ wal_cursor' = wal_cursor + Len(EncodeRows(rows))
    /\ wal_last' = WalLast("write_transaction", rows, "ok")
    /\ UNCHANGED <<checkpoint, wal_status>>

\* Wal::commit: File::flush, which has nothing to write for a std File
commit ==
    /\ wal_status = "ok"
    /\ UNCHANGED <<pool_vars, page_vars, file_vars, space_vars>>
    /\ wal_last' = WalLast("commit", <<>>, "ok")
    /\ UNCHANGED <<wal_file, wal_cursor, checkpoint, wal_written, wal_status>>

\* Wal::read
wal_read ==
    /\ wal_status = "ok"
    /\ UNCHANGED <<pool_vars, page_vars, file_vars, space_vars>>
    /\ LET r == read(wal_file, checkpoint) IN
       /\ wal_cursor' = r.cursor
       /\ checkpoint' = r.checkpoint
       /\ wal_status' = IF r.panicked THEN "panicked" ELSE "ok"
       /\ wal_last' = WalLast("read", r.rows,
                              IF r.panicked THEN "panic" ELSE "ok")
    /\ UNCHANGED <<wal_file, wal_written>>

\* Wal::vacuum: read, remove the file, open it again, write the rows read.
\* self.checkpoint keeps the value read gave it.
wal_vacuum ==
    /\ wal_status = "ok"
    /\ UNCHANGED <<pool_vars, page_vars, file_vars, space_vars>>
    /\ LET r == read(wal_file, checkpoint) IN
       IF r.panicked
       THEN /\ wal_cursor' = r.cursor
            /\ wal_status' = "panicked"
            /\ wal_last' = WalLast("vacuum", <<>>, "panic")
            /\ UNCHANGED <<wal_file, checkpoint>>
       ELSE /\ wal_file' = WriteAt(<<>>, 0, EncodeRows(r.rows))
            /\ wal_cursor' = Len(EncodeRows(r.rows))
            /\ checkpoint' = r.checkpoint
            /\ wal_status' = "ok"
            /\ wal_last' = WalLast("vacuum", r.rows, "ok")
    /\ UNCHANGED wal_written

WalNext ==
    \/ wal_build
    \/ \E rows \in Transactions : write_transaction(rows)
    \/ commit
    \/ wal_read
    \/ wal_vacuum

-----------------------------------------------------------------------------
(* Page: src/src/storage/file/page.rs *)

\* u32 arithmetic.  A u32 is held as the representative of its residue
\* modulo 2^32 that lies nearest to 0: x >= 0 stands for x and x < 0 for
\* 2^32 + x, so that wrapping addition and subtraction are the integer ones.
\* With overflow checks (a debug build) an overflowing operation panics,
\* without them (a release build) it wraps.
ULess(a, b) == IF (a < 0) = (b < 0) THEN a < b ELSE b < 0

ULeq(a, b) == a = b \/ ULess(a, b)

UAdd(a, b) ==
    [overflow |-> (a < 0 /\ b < 0) \/ ((a < 0) # (b < 0) /\ a + b >= 0),
     val |-> a + b]

USub(a, b) == [overflow |-> ULess(a, b), val |-> a - b]

UMul(a, n) == [overflow |-> a < 0, val |-> a * n]

\* Type::get_byte_size of the columns of the schema of the tests,
\* "id BIGINT, cost FLOAT, available BOOLEAN, date TIMESTAMP"
TestSchema == <<16, 8, 1, 8>>

\* Schema::tuple_size(Some(nulls)): the widths of the columns zipped with
\* nulls whose null byte is 0
tuple_size(schema, nulls) ==
    LET n == IF Len(schema) < Len(nulls) THEN Len(schema) ELSE Len(nulls)
    IN  SumOver([i \in 1..n |-> IF nulls[i] = 0 THEN schema[i] ELSE 0], 1..n)

\* Tuple::build(schema, nulls, data) for data of len bytes; <<>> stands for
\* Err(CorruptedTuple)
tuple_build(schema, nulls, len) ==
    IF tuple_size(schema, nulls) # len THEN <<>>
    ELSE <<[visibility |-> 0, nulls |-> nulls, data |-> [i \in 1..len |-> 1]]>>

\* FileEncoding::bytes_size: the length of bincode::serialize
bytes_size(t) == Len(TupleBytes(t))

RECURSIVE SetToSeq(_)
SetToSeq(S) ==
    IF S = {} THEN <<>>
    ELSE LET x == CHOOSE y \in S : TRUE IN <<x>> \o SetToSeq(S \ {x})

\* insertion of x into a sequence sorted as u32
RECURSIVE SortedInsert(_, _)
SortedInsert(s, x) ==
    IF s = <<>> THEN <<x>>
    ELSE IF ULeq(x, Head(s)) THEN <<x>> \o s
    ELSE <<Head(s)>> \o SortedInsert(Tail(s), x)

\* Vec<u32>::sort
RECURSIVE USort(_)
USort(s) == IF s = <<>> THEN <<>> ELSE SortedInsert(USort(Tail(s)), Head(s))

RECURSIVE Flatten(_)
Flatten(ss) == IF ss = <<>> THEN <<>> ELSE Head(ss) \o Flatten(Tail(ss))

\* A faulty get_free_slots: the boundary 14 + 8 * slots that a tuple already
\* starts at is kept at the head of the list.
get_free_slots_keep_first(ts, ps, sl, checks) ==
    LET keys == SetToSeq(DOMAIN ts)
        ends == [i \in 1..Len(keys) |-> UAdd(keys[i][1], keys[i][2])]
        sorted == USort(Flatten([i \in 1..Len(keys) |->
                                   <<keys[i][1], ends[i].val>>]))
        pushed == IF ps \in Range(sorted) THEN sorted ELSE Append(sorted, ps)
        mul == UMul(sl, 8)
        first == UAdd(14, mul.val)
        bounds == IF first.val \notin Range(pushed)
                  THEN <<first.val>> \o pushed
                  ELSE pushed
        n == Len(bounds) \div 2
        lens == [i \in 1..n |-> USub(bounds[2 * i], bounds[2 * i - 1])]
        overflow == \/ \E i \in 1..Len(keys) : ends[i].overflow
                    \/ mul.overflow
                    \/ first.overflow
                    \/ \E i \in 1..n : lens[i].overflow
        IsRun(r) == r[2] # 0
    IN  [panicked |-> checks /\ overflow,
         runs |-> SelectSeq([i \in 1..n |-> <<bounds[2 * i - 1], lens[i].val>>],
                            IsRun)]

\* Page::get_free_slots on the map ts of a page of ps bytes with sl slots
get_free_slots(ts, ps, sl, checks) ==
    LET keys == SetToSeq(DOMAIN ts)
        ends == [i \in 1..Len(keys) |-> UAdd(keys[i][1], keys[i][2])]
        sorted == USort(Flatten([i \in 1..Len(keys) |->
                                   <<keys[i][1], ends[i].val>>]))
        pushed == IF ps \in Range(sorted) THEN sorted ELSE Append(sorted, ps)
        mul == UMul(sl, 8)
        first == UAdd(14, mul.val)
        bounds == IF first.val \notin Range(pushed)
                  THEN <<first.val>> \o pushed
                  ELSE Tail(pushed)
        n == Len(bounds) \div 2
        lens == [i \in 1..n |-> USub(bounds[2 * i], bounds[2 * i - 1])]
        overflow == \/ \E i \in 1..Len(keys) : ends[i].overflow
                    \/ mul.overflow
                    \/ first.overflow
                    \/ \E i \in 1..n : lens[i].overflow
        IsRun(r) == r[2] # 0
    IN  [panicked |-> checks /\ overflow,
         runs |-> SelectSeq([i \in 1..n |-> <<bounds[2 * i - 1], lens[i].val>>],
                            IsRun)]

\* free_slots.sort_by_key(|(_, length)| *length) and first(): the sort is
\* stable, so the first of the runs of the smallest length
SmallestRun(runs) ==
    LET i == CHOOSE j \in 1..Len(runs) :
                 /\ \A k \in 1..Len(runs) : ULeq(runs[j][2], runs[k][2])
                 /\ \A k \in 1..(j - 1) : runs[k][2] # runs[j][2]
    IN  runs[i]

\* A faulty insert: the tuple is put at the start of the run it was given.
InsertSlotAtStart(runs, tuple_size_) ==
    LET run == SmallestRun(runs)
        top == UAdd(run[1], run[2])
    IN  [overflow |-> top.overflow, slot |-> <<run[1], tuple_size_>>]

\* the slot Page::insert gives a tuple of tuple_size bytes
InsertSlot(runs, tuple_size_) ==
    LET run == SmallestRun(runs)
        top == UAdd(run[1], run[2])
        offset == USub(top.val, tuple_size_)
    IN  [overflow |-> top.overflow \/ offset.overflow,
         slot |-> <<offset.val, tuple_size_>>]

\* page_size of the pages
PageCapacities == {50, 70}

\* calls on one page
MaxPageCalls == 5

\* nulls of the tuples handed to insert and update_by_slot
NullsInputs == {<<1, 1, 1, 1>>, <<1, 1, 0, 1>>, <<1, 0, 0, 1>>}

\* (nulls, data.len()) of the calls: data that matches nulls, and one that
\* does not
TupleInputs ==
    {<<n, tuple_size(TestSchema, n)>> : n \in NullsInputs}
      \cup {<<(<<1, 1, 0, 1>>), 0>>}

\* a slot no insert hands out (the one of the repository's tests)
AbsentSlot == <<251, 30>>

SlotLists(S) == UNION {[1..n -> S] : n \in 1..2}

PageLast(op, arg, ret) == [op |-> op, arg |-> arg, ret |-> ret]

\* header.checksum of a page that was built: 0
NoChecksum == [refreshed |-> FALSE, of |-> <<>>]

\* Page::build(schema, page_size, compression) in a build with or without
\* overflow checks
PageInit(capacities, profiles) ==
    /\ page_size \in capacities
    /\ checksum = NoChecksum
    /\ slots = 0
    /\ tuples = EmptyMap
    /\ overflow_checks \in profiles
    /\ page_calls = 0
    /\ page_status = "ok"
    /\ page_last = PageLast("build", <<>>, "ok")

\* Page::insert(nulls, data), data.len() = len
insert(nulls, len) ==
    /\ page_status = "ok"
    /\ UNCHANGED <<pool_vars, wal_vars, file_vars, space_vars>>
    /\ page_calls < MaxPageCalls
    /\ page_calls' = page_calls + 1
    /\ UNCHANGED <<page_size, checksum, overflow_checks>>
    /\ LET built == tuple_build(TestSchema, nulls, len) IN
       IF built = <<>>
       THEN /\ page_last' = PageLast("insert", <<nulls, len>>, "CorruptedTuple")
            /\ UNCHANGED <<slots, tuples, page_status>>
       ELSE
       LET tuple == built[1]
           tuple_size_ == bytes_size(tuple)
           free == get_free_slots(tuples, page_size, slots, overflow_checks)
           Fits(r) == ULess(tuple_size_, r[2])
           free_slots == SelectSeq(free.runs, Fits)
       IN
       IF free.panicked
       THEN /\ page_last' = PageLast("insert", <<nulls, len>>, "panic")
            /\ page_status' = "panicked"
            /\ UNCHANGED <<slots, tuples>>
       ELSE IF free_slots = <<>>
       THEN /\ page_last' = PageLast("insert", <<nulls, len>>, "PageOverflow")
            /\ UNCHANGED <<slots, tuples, page_status>>
       ELSE
       LET s == InsertSlot(free_slots, tuple_size_)
           inc == UAdd(slots, 1)
       IN
       IF overflow_checks /\ s.overflow
       THEN /\ page_last' = PageLast("insert", <<nulls, len>>, "panic")
            /\ page_status' = "panicked"
            /\ UNCHANGED <<slots, tuples>>
       ELSE /\ tuples' = Put(tuples, s.slot, tuple)
            /\ IF overflow_checks /\ inc.overflow
               THEN /\ page_last' = PageLast("insert", <<nulls, len>>, "panic")
                    /\ page_status' = "panicked"
                    /\ UNCHANGED slots
               ELSE /\ page_last' = PageLast("insert", s.slot, "ok")
                    /\ slots' = inc.val
                    /\ UNCHANGED page_status

\* the loop of Page::delete_by_slots over the slots of list
RECURSIVE DeleteLoop(_, _, _, _)
DeleteLoop(ts, sl, list, checks) ==
    IF list = <<>> THEN [tuples |-> ts, slots |-> sl, panicked |-> FALSE]
    ELSE IF Head(list) \notin DOMAIN ts
    THEN DeleteLoop(ts, sl, Tail(list), checks)
    ELSE LET rest == Restrict(ts, DOMAIN ts \ {Head(list)})
             dec == USub(sl, 1)
         IN  IF checks /\ dec.overflow
             THEN [tuples |-> rest, slots |-> sl, panicked |-> TRUE]
             ELSE DeleteLoop(rest, dec.val, Tail(list), checks)

\* Page::delete_by_slots(slots)
delete_by_slots(list) ==
    /\ page_status = "ok"
    /\ UNCHANGED <<pool_vars, wal_vars, file_vars, space_vars>>
    /\ page_calls < MaxPageCalls
    /\ page_calls' = page_calls + 1
    /\ UNCHANGED <<page_size, checksum, overflow_checks>>
    /\ LET d == DeleteLoop(tuples, slots, list, overflow_checks) IN
       /\ tuples' = d.tuples
       /\ slots' = d.slots
       /\ page_status' = IF d.panicked THEN "panicked" ELSE "ok"
       /\ page_last' = PageLast("delete_by_slots", <<>>,
                                IF d.panicked THEN "panic" ELSE "ok")

\* Page::update_by_slot(slot, nulls, data), data.len() = len: the tuple is
\* put into the map before the previous entry is looked at
update_by_slot(slot, nulls, len) ==
    /\ page_status = "ok"
    /\ UNCHANGED <<pool_vars, wal_vars, file_vars, space_vars>>
    /\ page_calls < MaxPageCalls
    /\ page_calls' = page_calls + 1
    /\ UNCHANGED <<page_size, checksum, overflow_checks, slots, page_status>>
    /\ LET built == tuple_build(TestSchema, nulls, len) IN
       IF built = <<>>
       THEN /\ page_last' = PageLast("update_by_slot", slot, "CorruptedTuple")
            /\ UNCHANGED tuples
       ELSE /\ tuples' = Put(tuples, slot, built[1])
            /\ page_last' = PageLast("update_by_slot", slot,
                                     IF slot \in DOMAIN tuples
                                     THEN "ok" ELSE "InvalidSlot")

\* Page::read_by_slots(slots): the slots of the list that hold a tuple
read_by_slots(list) ==
    /\ page_status = "ok"
    /\ UNCHANGED <<pool_vars, wal_vars, file_vars, space_vars>>
    /\ page_calls < MaxPageCalls
    /\ page_calls' = page_calls + 1
    /\ UNCHANGED <<page_size, checksum, overflow_checks, slots, tuples, page_status>>
    /\ page_last' = PageLast("read_by_slots", <<>>,
                             Restrict(tuples, Range(list) \cap DOMAIN tuples))

\* PageHeader::as_bytes, the 14 bytes Page::from_bytes reads back:
\* page_size, slots, checksum, visibility, compression.  The checksum field
\* (bytes 8..11) is written as zeros: valid_checksum and refresh_checksum
\* hash the bytes from 17 on and never read it.
PageHeaderBytes(ps, sl) == LE(ps, 4) \o LE(sl, 4) \o <<0, 0, 0, 0>> \o <<0, 1>>

\* the loop of Page::as_bytes over the slots `keys`: each slot is appended
\* to the slot array `head`, and its tuple is spliced into `body` over the
\* range (k.0 - tuple_offset_start)..(k.0 + k.1 - tuple_offset_start); the
\* range computation and Vec::splice panic on a range that is not inside
\* body
RECURSIVE SpliceTuples(_, _, _, _, _)
SpliceTuples(keys, ts, start, head, body) ==
    IF keys = <<>> THEN [panicked |-> FALSE, bytes |-> head \o body]
    ELSE LET k == Head(keys)
             from == k[1] - start
             to == k[1] + k[2] - start
         IN  IF k[1] < 0 \/ k[2] < 0 \/ from < 0 \/ to > Len(body)
             THEN [panicked |-> TRUE, bytes |-> <<>>]
             ELSE SpliceTuples(Tail(keys), ts, start,
                               head \o LE(k[1], 4) \o LE(k[2], 4),
                               SubSeq(body, 1, from) \o TupleBytes(ts[k])
                                 \o SubSeq(body, to + 1, Len(body)))

\* Page::as_bytes when self.tuples.iter() visits the slots in the order
\* `keys`
as_bytes_by(keys, ps, sl, ts) ==
    LET tuple_offset_start == 14 + sl * 8 IN
    IF sl < 0 \/ tuple_offset_start > ps
    THEN [panicked |-> TRUE, bytes |-> <<>>]
    ELSE SpliceTuples(keys, ts, tuple_offset_start,
                      PageHeaderBytes(ps, sl),
                      [i \in 1..(ps - tuple_offset_start) |-> 0])

\* Page::as_bytes.  self.tuples.iter() visits the slots in the order of the
\* HashMap, which stays the same as long as the map is not changed; it is
\* modelled by one order per key set.
page_as_bytes(ps, sl, ts) == as_bytes_by(SetToSeq(DOMAIN ts), ps, sl, ts)

\* crc32fast::hash(&self.as_bytes()[17..]).  The CRC-32 is modelled by the
\* bytes it is computed from: equal bytes give equal checksums, and no
\* checksum of a page is taken to be 0 or to collide with another.
hash(bytes) == [refreshed |-> TRUE, of |-> SubSeq(bytes, 18, Len(bytes))]

\* what Page::valid_checksum returns on the page: "true", "false", or
\* "panic" when as_bytes panics
valid_checksum_of(ps, sl, ts, ck) ==
    LET b == page_as_bytes(ps, sl, ts) IN
    IF b.panicked \/ Len(b.bytes) < 17 THEN "panic"
    ELSE IF ck = hash(b.bytes) THEN "true" ELSE "false"

\* Page::refresh_checksum
refresh_checksum ==
    /\ page_status = "ok"
    /\ UNCHANGED <<pool_vars, wal_vars, file_vars, space_vars>>
    /\ page_calls < MaxPageCalls
    /\ page_calls' = page_calls + 1
    /\ UNCHANGED <<page_size, overflow_checks, slots, tuples>>
    /\ LET b == page_as_bytes(page_size, slots, tuples) IN
       IF b.panicked \/ Len(b.bytes) < 17
       THEN /\ page_status' = "panicked"
            /\ page_last' = PageLast("refresh_checksum", <<>>, "panic")
            /\ UNCHANGED checksum
       ELSE /\ checksum' = hash(b.bytes)
            /\ page_last' = PageLast("refresh_checksum", <<>>, "ok")
            /\ UNCHANGED page_status

\* Page::valid_checksum
valid_checksum ==
    /\ page_status = "ok"
    /\ UNCHANGED <<pool_vars, wal_vars, file_vars, space_vars>>
    /\ page_calls < MaxPageCalls
    /\ page_calls' = page_calls + 1
    /\ UNCHANGED <<page_size, checksum, overflow_checks, slots, tuples>>
    /\ LET r == valid_checksum_of(page_size, slots, tuples, checksum) IN
       /\ page_status' = IF r = "panic" THEN "panicked" ELSE "ok"
       /\ page_last' = PageLast("valid_checksum", <<>>, r)

\* a page under the calls that change it and the two checksum calls
ChecksumNext ==
    \/ \E t \in TupleInputs : insert(t[1], t[2])
    \/ \E slot \in DOMAIN tuples : delete_by_slots(<<slot>>)
    \/ \E slot \in DOMAIN tuples \cup {AbsentSlot}, t \in TupleInputs :
         update_by_slot(slot, t[1], t[2])
    \/ refresh_checksum
    \/ valid_checksum

\* page_size of get_test_page
ExampleCapacity == 500

\* nulls of the three tuples of get_test_page, whose data have 33, 17 and
\* 25 bytes
ExampleNulls == <<(<<0, 0, 0, 0>>), (<<1, 0, 0, 0>>), (<<0, 0, 0, 1>>)>>

ExampleTuple(i) ==
    tuple_build(TestSchema, ExampleNulls[i],
                tuple_size(TestSchema, ExampleNulls[i]))[1]

\* a page of 500 bytes under inserts of the three tuples and deletes
ExampleNext ==
    \/ \E i \in 1..3 : insert(ExampleNulls[i], Len(ExampleTuple(i).data))
    \/ \E slot \in DOMAIN tuples : delete_by_slots(<<slot>>)

InsertDeleteNext ==
    \/ \E t \in TupleInputs : insert(t[1], t[2])
    \/ \E list \in SlotLists(DOMAIN tuples \cup {AbsentSlot}) :
         delete_by_slots(list)

PageNext ==
    \/ \E t \in TupleInputs : insert(t[1], t[2])
    \/ \E list \in SlotLists(DOMAIN tuples \cup {AbsentSlot}) :
         delete_by_slots(list)
    \/ \E slot \in DOMAIN tuples \cup {AbsentSlot}, t \in TupleInputs :
         update_by_slot(slot, t[1], t[2])
    \/ \E list \in SlotLists(DOMAIN tuples \cup {AbsentSlot}) :
         read_by_slots(list)

\* A page put together field by field, as the tests of get_free_slots do:
\* page_size of the page and the most slots it holds.
HandPageSize == 50

MaxHandSlots == 3

\* the sets of n slots of at least one byte in [lo, ps), none overlapping
\* another
RECURSIVE Packs(_, _, _)
Packs(n, lo, ps) ==
    IF n = 0 THEN {{}}
    ELSE UNION {{{<<o, l>>} \cup rest : rest \in Packs(n - 1, o + l, ps)} :
                  <<o, l>> \in {x \in (lo..(ps - 1)) \X (1..(ps - lo)) :
                                  x[1] + x[2] <= ps}}

\* Page { header: PageHeader { page_size, slots, .. }, tuples }: slots is the
\* number of entries, every slot lies in [14 + 8 * slots, page_size) and no
\* two slots overlap
HandPageInit ==
    /\ page_size = HandPageSize
    /\ checksum = NoChecksum
    /\ slots \in 0..MaxHandSlots
    /\ \E keys \in Packs(slots, 14 + 8 * slots, page_size) :
          tuples = [k \in keys |-> tuple_build(TestSchema, <<1, 1, 1, 1>>, 0)[1]]
    /\ overflow_checks \in {TRUE, FALSE}
    /\ page_calls = 0
    /\ page_status = "ok"
    /\ page_last = PageLast("build", <<>>, "ok")

\* self.get_free_slots() on the page
free_slots_call ==
    /\ page_status = "ok"
    /\ UNCHANGED <<pool_vars, wal_vars, file_vars, space_vars>>
    /\ UNCHANGED <<page_size, checksum, slots, tuples, overflow_checks,
                   page_calls, page_status>>
    /\ page_last' = PageLast("get_free_slots", <<>>,
                             get_free_slots(tuples, page_size, slots,
                                            overflow_checks))

FreeSlotsNext == free_slots_call

\* The longest null bitmap handed to Tuple::build.
MaxNulls == 5

\* Null bitmaps of every length up to MaxNulls; the schema has 4 fields.
AllNulls == UNION {[1..n -> {0, 1}] : n \in 0..MaxNulls}

\* data.len() of the calls: the sums of widths of the schema, and lengths
\* next to them.
DataLens == {0, 1, 8, 9, 16, 17, 24, 25, 32, 33}

\* Tuple::build(schema, nulls, data) on the schema of the tests
Tuple_build(nulls, len) ==
    /\ page_status = "ok"
    /\ UNCHANGED <<pool_vars, wal_vars, file_vars, space_vars>>
    /\ UNCHANGED <<page_size, checksum, overflow_checks, slots, tuples>>
    /\ UNCHANGED <<page_calls, page_status>>
    /\ page_last' = PageLast("Tuple::build", <<nulls, len>>,
                             tuple_build(TestSchema, nulls, len))

TupleNext == \E nulls \in AllNulls, len \in DataLens : Tuple_build(nulls, len)

-----------------------------------------------------------------------------
(* File: src/src/storage/file/mod.rs *)

\* The bytes of a FileHeader: file_size, pages, visibility, compression and
\* version, read back by File::from_bytes from bytes[..13].
FILE_HEADER_SIZE == 13

\* The file of the tests: File::build(500 * 10 + 10, 0, [0, 10, 28]) and its
\* pages of 500 bytes.
TestFileSize == 500 * 10 + 10

TestPageSize == 500

\* A page held by a File, as far as File reads it: header.page_size and what
\* tells two pages of one size apart, header.compression.  The pages are
\* those of Page::build, without tuples.
FilePage(ps, c) == [page_size |-> ps, compression |-> c]

TestPage == FilePage(TestPageSize, 0)

\* A small file in which three pages of 20 bytes fit, and the pages offered
\* to it; -6 stands for the page size 2^32 - 6.
SmallFileSize == FILE_HEADER_SIZE + 3 * 20

FilePages == {FilePage(20, 0), FilePage(20, 1), FilePage(30, 0), FilePage(-6, 0)}

FileIndexes == 0..3

TestIndexes == 0..10

FileLast(op, arg, ret, out) == [op |-> op, arg |-> arg, ret |-> ret, out |-> out]

\* File::build
FileInit(sizes) ==
    /\ file_size \in sizes
    /\ file_pages = EmptyMap
    /\ file_status = "ok"
    /\ file_last = FileLast("build", <<>>, "ok", <<>>)

\* (page_index + 1) * page.header.page_size in u32, for a small page_index + 1
UTimes(k, a) == [overflow |-> a < 0 /\ k > 1, val |-> k * a]

\* The index File::insert_page gives a new page: self.pages.len().
page_index_of(ps) == Cardinality(DOMAIN ps)

\* A faulty test that leaves the header bytes out.
insert_page_test_no_header(fs, n, ps, checks) ==
    LET prod == UTimes(n + 1, ps)
    IN IF checks /\ prod.overflow THEN "panic"
       ELSE IF ULess(fs, prod.val) THEN "PageOverflow"
       ELSE "ok"

\* The test of File::insert_page: header bytes + (page_index + 1) * page_size
\* > file_size.  "panic" when the sum overflows under overflow checks.
insert_page_test(fs, n, ps, checks) ==
    LET prod == UTimes(n + 1, ps)
        sum == UAdd(FILE_HEADER_SIZE, prod.val)
    IN IF checks /\ (prod.overflow \/ sum.overflow) THEN "panic"
       ELSE IF ULess(fs, sum.val) THEN "PageOverflow"
       ELSE "ok"

\* File::insert_page(page)
insert_page(page) ==
    /\ file_status = "ok"
    /\ UNCHANGED <<pool_vars, wal_vars, page_vars, space_vars>>
    /\ UNCHANGED file_size
    /\ LET page_index == page_index_of(file_pages)
           r == insert_page_test(file_size, page_index, page.page_size,
                                 overflow_checks)
       IN /\ file_last' = FileLast("insert_page", page, r, page_index)
          /\ file_status' = IF r = "panic" THEN "panicked" ELSE "ok"
          /\ file_pages' = IF r = "ok" THEN Put(file_pages, page_index, page)
                           ELSE file_pages

\* A faulty delete_by_index that answers Ok for an index that holds no page.
delete_outcome_ok(ps, index) == "ok"

\* The answer of delete_by_index and of update_by_index
index_outcome(ps, index) == IF index \in DOMAIN ps THEN "ok" ELSE "InvalidIndex"

\* File::delete_by_index(index)
delete_by_index(index) ==
    /\ file_status = "ok"
    /\ UNCHANGED <<pool_vars, wal_vars, page_vars, space_vars>>
    /\ UNCHANGED <<file_size, file_status>>
    /\ file_pages' = Restrict(file_pages, DOMAIN file_pages \ {index})
    /\ file_last' = FileLast("delete_by_index", index,
                             index_outcome(file_pages, index), index)

\* File::update_by_index(index, page)
update_by_index(index, page) ==
    /\ file_status = "ok"
    /\ UNCHANGED <<pool_vars, wal_vars, page_vars, space_vars>>
    /\ UNCHANGED <<file_size, file_status>>
    /\ file_pages' = IF index \in DOMAIN file_pages
                     THEN Put(file_pages, index, page) ELSE file_pages
    /\ file_last' = FileLast("update_by_index", <<index, page>>,
                             index_outcome(file_pages, index), index)

\* File::select_by_indexes(indexes): the pages of the indexes that hold one
select_by_indexes(indexes) ==
    /\ file_status = "ok"
    /\ UNCHANGED <<pool_vars, wal_vars, page_vars, space_vars>>
    /\ UNCHANGED <<file_size, file_pages, file_status>>
    /\ file_last' = FileLast("select_by_indexes", indexes, "ok",
                             Restrict(file_pages, indexes \cap DOMAIN file_pages))

\* FileHeader::as_bytes: file_size, pages (0 since build), visibility,
\* compression and the version of the tests.
FileHeaderBytes(fs) == LE(fs, 4) \o LE(0, 4) \o <<0>> \o <<0>> \o <<0, 10, 28>>

\* Page::as_bytes of a page without tuples: the header (page_size, slots,
\* checksum, visibility, compression) and page_size - 14 zeros.
FilePageBytes(p) ==
    LE(p.page_size, 4) \o LE(0, 4) \o <<0, 0, 0, 0>> \o <<0, p.compression>>
    \o [i \in 1..(p.page_size - 14) |-> 0]

\* File::as_bytes: the header, then the pages as self.pages.iter() yields
\* them; order is that iteration, a sequence of the indexes.
RECURSIVE file_as_bytes(_, _, _)
file_as_bytes(fs, ps, order) ==
    IF order = <<>> THEN FileHeaderBytes(fs)
    ELSE file_as_bytes(fs, ps, SubSeq(order, 1, Len(order) - 1))
         \o FilePageBytes(ps[order[Len(order)]])

\* u32::from_le_bytes
RECURSIVE FromLE(_)
FromLE(b) == IF b = <<>> THEN 0 ELSE b[1] + 256 * FromLE(Tail(b))

\* bytes.chunks(n)
RECURSIVE Chunks(_, _)
Chunks(b, n) ==
    IF b = <<>> THEN <<>>
    ELSE IF Len(b) <= n THEN <<b>>
    ELSE <<SubSeq(b, 1, n)>> \o Chunks(SubSeq(b, n + 1, Len(b)), n)

\* Page::from_bytes of one chunk: bytes[..14] is the header and
\* bytes[14..14 + slots * 8] the slots; a slice out of the chunk panics.
FilePageFromBytes(chunk) ==
    IF \/ Len(chunk) < 14
       \/ 14 + FromLE(SubSeq(chunk, 5, 8)) * 8 > Len(chunk)
    THEN [panicked |-> TRUE, page |-> FilePage(0, 0)]
    ELSE [panicked |-> FALSE,
          page |-> FilePage(FromLE(SubSeq(chunk, 1, 4)), chunk[14])]

\* File::from_bytes: the header from bytes[..13], the page size from the
\* header at bytes[13..27], and one page per chunk of that size, indexed
\* from 0 in the order of the bytes.
NoFile == [panicked |-> TRUE, file_size |-> 0, pages |-> EmptyMap]

file_from_bytes(bytes) ==
    IF Len(bytes) < 27 THEN NoFile
    ELSE LET page_size_ == FromLE(SubSeq(bytes, 14, 17))
         IN IF page_size_ = 0 THEN NoFile
            ELSE LET chunks == Chunks(SubSeq(bytes, 14, Len(bytes)), page_size_)
                     decoded == [i \in 1..Len(chunks) |->
                                    FilePageFromBytes(chunks[i])]
                 IN IF \E i \in 1..Len(chunks) : decoded[i].panicked
                    THEN NoFile
                    ELSE [panicked |-> FALSE,
                          file_size |-> FromLE(SubSeq(bytes, 1, 4)),
                          pages |-> [i \in 0..(Len(chunks) - 1) |->
                                        decoded[i + 1].page]]

\* File::from_bytes(&file.as_bytes()), as the test as_bytes_should_convert_file
\* calls it, for a file whose pages have a size Page::as_bytes can allocate.
as_bytes_from_bytes ==
    /\ file_status = "ok"
    /\ \A i \in DOMAIN file_pages : file_pages[i].page_size >= 14
    /\ UNCHANGED <<pool_vars, wal_vars, page_vars, space_vars>>
    /\ UNCHANGED <<file_size, file_pages>>
    /\ \E order \in Perms(DOMAIN file_pages) :
          LET f == file_from_bytes(file_as_bytes(file_size, file_pages, order))
          IN /\ file_last' = FileLast("as_bytes_from_bytes", order,
                                      IF f.panicked THEN "panic" ELSE "ok", f)
             /\ file_status' = IF f.panicked THEN "panicked" ELSE "ok"

FileNext ==
    \/ \E page \in FilePages : insert_page(page)
    \/ \E index \in FileIndexes : delete_by_index(index)
    \/ \E index \in FileIndexes, page \in FilePages : update_by_index(index, page)
    \/ \E indexes \in SUBSET FileIndexes : select_by_indexes(indexes)
    \/ as_bytes_from_bytes

\* The calls of the tests on the file of the tests
TestFileNext ==
    \/ insert_page(TestPage)
    \/ \E index \in TestIndexes : delete_by_index(index)
    \/ \E index \in TestIndexes : update_by_index(index, TestPage)
    \/ \E index \in TestIndexes : select_by_indexes({index})

-----------------------------------------------------------------------------
(* Page: from_bytes of the bytes of a page *)

\* page_size of the page that is written and read back
RoundTripCapacity == 100

\* Tuple::from_bytes, bincode::deserialize: visibility, the length of nulls
\* on 8 bytes and nulls, the length of data on 8 bytes and data; unwrap
\* panics on bytes that end before the tuple does
NoTuple == [panicked |-> TRUE, tuple |-> [visibility |-> 0, nulls |-> <<>>, data |-> <<>>]]

tuple_from_bytes(b) ==
    IF Len(b) < 9 THEN NoTuple
    ELSE LET nl == FromLE(SubSeq(b, 2, 9)) IN
    IF Len(b) < 17 + nl THEN NoTuple
    ELSE LET dl == FromLE(SubSeq(b, 10 + nl, 17 + nl)) IN
    IF Len(b) < 17 + nl + dl THEN NoTuple
    ELSE [panicked |-> FALSE,
          tuple |-> [visibility |-> b[1],
                     nulls |-> SubSeq(b, 10, 9 + nl),
                     data |-> SubSeq(b, 18 + nl, 17 + nl + dl)]]

\* Page::from_bytes: the header from bytes[..14], the slots from the chunks
\* of 8 bytes of bytes[14..14 + slots * 8], and for each slot the tuple from
\* bytes[offset..offset + length]; a slice out of the bytes panics.  ck is
\* the checksum that bytes[8..12] hold.
NoPage == [panicked |-> TRUE, page_size |-> 0, slots |-> 0, checksum |-> NoChecksum, tuples |-> EmptyMap]

page_from_bytes(bytes, ck) ==
    IF Len(bytes) < 14 THEN NoPage
    ELSE LET sl == FromLE(SubSeq(bytes, 5, 8)) IN
    IF 14 + sl * 8 > Len(bytes) THEN NoPage
    ELSE LET keys == [i \in 1..sl |->
                        <<FromLE(SubSeq(bytes, 8 * i + 7, 8 * i + 10)),
                          FromLE(SubSeq(bytes, 8 * i + 11, 8 * i + 14))>>]
             Slice(k) == SubSeq(bytes, k[1] + 1, k[1] + k[2])
         IN
    IF \E i \in 1..sl : \/ keys[i][1] + keys[i][2] > Len(bytes)
                        \/ tuple_from_bytes(Slice(keys[i])).panicked
    THEN NoPage
    ELSE [panicked |-> FALSE,
          page_size |-> FromLE(SubSeq(bytes, 1, 4)),
          slots |-> sl,
          checksum |-> ck,
          tuples |-> [k \in Range(keys) |-> tuple_from_bytes(Slice(k)).tuple]]

\* Page::from_bytes(&page.as_bytes(), Some(&schema)).unwrap().valid_checksum()
\* The page that is read back has a HashMap of its own, whose iter() visits
\* the slots in an order of its own: `order`.
from_bytes_valid_checksum(order) ==
    /\ page_status = "ok"
    /\ UNCHANGED <<pool_vars, wal_vars, file_vars, space_vars>>
    /\ page_calls < MaxPageCalls
    /\ page_calls' = page_calls + 1
    /\ UNCHANGED <<page_size, checksum, overflow_checks, slots, tuples>>
    /\ LET b == page_as_bytes(page_size, slots, tuples)
           q == page_from_bytes(b.bytes, checksum)
       IN
       IF b.panicked \/ q.panicked
       THEN /\ page_status' = "panicked"
            /\ page_last' = PageLast("from_bytes.valid_checksum", <<>>, "panic")
       ELSE /\ order \in Perms(DOMAIN q.tuples)
            /\ LET r == as_bytes_by(order, q.page_size, q.slots, q.tuples)
                   ret == IF r.panicked \/ Len(r.bytes) < 17 THEN "panic"
                          ELSE IF q.checksum = hash(r.bytes) THEN "true"
                          ELSE "false"
               IN  /\ page_status' = IF ret = "panic" THEN "panicked" ELSE "ok"
                   /\ page_last' = PageLast("from_bytes.valid_checksum", order, ret)

\* a page that is filled, has its checksum refreshed and tested, and is
\* written and read back
RoundTripNext ==
    \/ \E t \in TupleInputs : insert(t[1], t[2])
    \/ \E slot \in DOMAIN tuples : delete_by_slots(<<slot>>)
    \/ refresh_checksum
    \/ valid_checksum
    \/ \E order \in Perms(DOMAIN tuples) : from_bytes_valid_checksum(order)

-----------------------------------------------------------------------------
(* Metastore, Database and Table: src/src/storage/tablespace *)

\* The names given to new_database and to new_table, the locations
\* ("None" is the call without a location) and the schemas of the calls.
SpaceNames == {"a", "b"}

TableNames == {"t", "u"}

SpaceLocations == {"None", "elsewhere"}

Schemas == {"id BIGINT", "id INT"}

\* What the file system does to a call: nothing wrong, a failure while the
\* child is built or created, or a failure while the parent is saved.
IoOutcomes == {"ok", "build", "save"}

\* The location of the metastore.
MetastoreLocation == <<"location">>

\* location.unwrap_or(self.location.join(name)) in a parent at location parent
location_in(parent, name, location) == IF location = "None" THEN Append(parent, name) ELSE <<location>>

\* location.unwrap_or(self.location.join(name)) in the metastore
location_of(name, location) == location_in(MetastoreLocation, name, location)

\* Table::build: the table new_table stores under its name, without files.
Child(name, location) == [name |-> name, location |-> location]

\* Database::build: the database new_database stores under its name and
\* returns, without tables.
BuiltDatabase(name, location) == [name |-> name, location |-> location, table_paths |-> EmptyMap]

\* The caller holds no Database.
NoHandle == [name |-> "", location |-> <<>>]

SpaceLast(op, name, ret) == [op |-> op, name |-> name, ret |-> ret]

\* Metastore::build on an empty directory: the descriptor of the metastore
\* is saved without databases.
SpaceInit ==
    /\ database_paths = EmptyMap
    /\ databases = EmptyMap
    /\ handle = NoHandle
    /\ table_paths = EmptyMap
    /\ database_tables = EmptyMap
    /\ file_paths = {}
    /\ metastore_json = EmptyMap
    /\ database_json = EmptyMap
    /\ table_json = EmptyMap
    /\ space_last = SpaceLast("build", "", "ok")

\* The directories that hold a .meta folder: those a database or a table
\* was built in.
MetaDirs(dj, tj) == DOMAIN dj \cup DOMAIN tj

\* path is dir or lies below it.
IsUnder(path, dir) == Len(path) >= Len(dir) /\ SubSeq(path, 1, Len(dir)) = dir

\* The directory exists: something was built in it or below it.
DirExists(dir, dj, tj) == \E path \in MetaDirs(dj, tj) : IsUnder(path, dir)

\* fs::remove_dir_all(dir) on the descriptors json
remove_dir_all(json, dir) == Restrict(json, {path \in DOMAIN json : ~IsUnder(path, dir)})

\* A faulty entry that is always vacant.
entry_always_vacant(paths, name) == "Vacant"

\* self.database_paths.entry(name) and self.table_paths.entry(name)
entry(paths, name) == IF name \in DOMAIN paths THEN "Occupied" ELSE "Vacant"

\* The answer of new_database and new_table.
new_outcome(paths, name, io) ==
    IF io = "build" THEN "Io"
    ELSE IF entry(paths, name) = "Occupied" THEN "ObjectExists"
    ELSE IF io = "save" THEN "Io"
    ELSE "ok"

\* Metastore::new_database(name, location): Database::build writes the
\* descriptor of the database, then the entry of the name is tested; the
\* caller keeps the Database that a successful call returns.
new_database(name, location, io) ==
    /\ UNCHANGED <<pool_vars, wal_vars, page_vars, file_vars>>
    /\ UNCHANGED <<file_paths, table_json>>
    /\ LET path == location_of(name, location)
           ret == new_outcome(database_paths, name, io)
       IN /\ space_last' = SpaceLast("new_database", name, ret)
          /\ database_json' = IF io = "build" THEN database_json
                              ELSE Put(database_json, path,
                                       [name |-> name, table_paths |-> EmptyMap])
          /\ IF io # "build" /\ entry(database_paths, name) = "Vacant"
             THEN /\ database_paths' = Put(database_paths, name, path)
                  /\ databases' = Put(databases, name, BuiltDatabase(name, path))
             ELSE UNCHANGED <<database_paths, databases>>
          /\ metastore_json' = IF ret = "ok" THEN database_paths'
                               ELSE metastore_json
          /\ IF ret = "ok"
             THEN /\ handle' = [name |-> name, location |-> path]
                  /\ table_paths' = EmptyMap
                  /\ database_tables' = EmptyMap
             ELSE UNCHANGED <<handle, table_paths, database_tables>>

\* Metastore::delete_database(name): the directory of the database is
\* removed and the name purged from the maps; the metastore is not saved.
\* A name without a path is answered with ObjectExists.
delete_database(name) ==
    /\ UNCHANGED <<pool_vars, wal_vars, page_vars, file_vars>>
    /\ UNCHANGED <<handle, table_paths, database_tables, file_paths>>
    /\ UNCHANGED metastore_json
    /\ IF name \notin DOMAIN database_paths
       THEN /\ UNCHANGED <<database_paths, databases, database_json, table_json>>
            /\ space_last' = SpaceLast("delete_database", name, "ObjectExists")
       ELSE IF ~DirExists(database_paths[name], database_json, table_json)
       THEN /\ UNCHANGED <<database_paths, databases, database_json, table_json>>
            /\ space_last' = SpaceLast("delete_database", name, "Io")
       ELSE /\ database_json' = remove_dir_all(database_json, database_paths[name])
            /\ table_json' = remove_dir_all(table_json, database_paths[name])
            /\ database_paths' = Restrict(database_paths,
                                          DOMAIN database_paths \ {name})
            /\ databases' = Restrict(databases, DOMAIN databases \ {name})
            /\ space_last' = SpaceLast("delete_database", name, "ok")

\* Database::new_table(name, location, schema) on the Database db with the
\* path map paths: Table::build writes the descriptor of the table, then
\* the entry of the name is tested, and the database is saved into the
\* .meta folder of its location.
NewTable(db, paths, name, location, schema, io) ==
    LET path == location_in(db.location, name, location)
        built == IF io = "build" THEN table_json
                 ELSE Put(table_json, path, [name |-> name, schema |-> schema])
        vacant == io # "build" /\ entry(paths, name) = "Vacant"
        after == IF vacant THEN Put(paths, name, path) ELSE paths
        saved == vacant /\ io # "save"
                   /\ db.location \in MetaDirs(database_json, built)
    IN [ret |-> IF vacant /\ ~saved THEN "Io" ELSE new_outcome(paths, name, io),
        path |-> path,
        table_paths |-> after,
        table_json |-> built,
        database_json |-> IF saved
                          THEN Put(database_json, db.location,
                                   [name |-> db.name, table_paths |-> after])
                          ELSE database_json]

\* Database::new_table on the Database the caller holds
database_new_table(name, location, schema, io) ==
    /\ handle # NoHandle
    /\ UNCHANGED <<pool_vars, wal_vars, page_vars, file_vars>>
    /\ UNCHANGED <<database_paths, databases, handle, file_paths, metastore_json>>
    /\ LET r == NewTable(handle, table_paths, name, location, schema, io)
       IN /\ space_last' = SpaceLast("new_table", name, r.ret)
          /\ table_paths' = r.table_paths
          /\ database_tables' = IF r.table_paths # table_paths
                                THEN Put(database_tables, name, Child(name, r.path))
                                ELSE database_tables
          /\ table_json' = r.table_json
          /\ database_json' = r.database_json

\* Database::new_table on the copy of the database db that the metastore
\* keeps in self.databases
copy_new_table(db, name, location, schema, io) ==
    /\ db \in DOMAIN databases
    /\ UNCHANGED <<pool_vars, wal_vars, page_vars, file_vars>>
    /\ UNCHANGED <<database_paths, handle, table_paths, database_tables>>
    /\ UNCHANGED <<file_paths, metastore_json>>
    /\ LET r == NewTable(databases[db], databases[db].table_paths, name,
                         location, schema, io)
       IN /\ space_last' = SpaceLast("copy_new_table", name, r.ret)
          /\ databases' = [databases EXCEPT ![db].table_paths = r.table_paths]
          /\ table_json' = r.table_json
          /\ database_json' = r.database_json

\* Database::delete_table(name): the directory of the table is removed and
\* the name purged from the maps; the database is not saved.
delete_table(name) ==
    /\ handle # NoHandle
    /\ UNCHANGED <<pool_vars, wal_vars, page_vars, file_vars>>
    /\ UNCHANGED <<database_paths, databases, handle, file_paths, metastore_json>>
    /\ IF name \notin DOMAIN table_paths
       THEN /\ UNCHANGED <<table_paths, database_tables, database_json, table_json>>
            /\ space_last' = SpaceLast("delete_table", name, "ObjectNotFound")
       ELSE IF ~DirExists(table_paths[name], database_json, table_json)
       THEN /\ UNCHANGED <<table_paths, database_tables, database_json, table_json>>
            /\ space_last' = SpaceLast("delete_table", name, "Io")
       ELSE /\ database_json' = remove_dir_all(database_json, table_paths[name])
            /\ table_json' = remove_dir_all(table_json, table_paths[name])
            /\ table_paths' = Restrict(table_paths, DOMAIN table_paths \ {name})
            /\ database_tables' = Restrict(database_tables,
                                           DOMAIN database_tables \ {name})
            /\ space_last' = SpaceLast("delete_table", name, "ok")

\* Metastore::from_file(location) and load_databases, as Catalog::refresh
\* calls them: the descriptor of the metastore is read, then the descriptor
\* of every database it lists.
from_file_load_databases ==
    /\ UNCHANGED <<pool_vars, wal_vars, page_vars, file_vars>>
    /\ UNCHANGED <<database_paths, databases, handle, table_paths, database_tables>>
    /\ UNCHANGED <<file_paths, metastore_json, database_json, table_json>>
    /\ space_last' = SpaceLast("from_file", "",
                               IF \A name \in DOMAIN metastore_json :
                                     metastore_json[name] \in DOMAIN database_json
                               THEN "ok" ELSE "Io")

\* The table and the schema of the calls of SpaceNext.
OneTable == "t"

OneSchema == "id BIGINT"

\* The calls on a metastore and on the Database the caller holds.
SpaceNext ==
    \/ \E name \in SpaceNames, location \in SpaceLocations, io \in IoOutcomes :
          new_database(name, location, io)
    \/ \E name \in SpaceNames : delete_database(name)
    \/ \E io \in IoOutcomes : database_new_table(OneTable, "None", OneSchema, io)
    \/ delete_table(OneTable)
    \/ from_file_load_databases

\* The calls on one database through the Database the caller holds and
\* through the copy the metastore keeps.
HandleNext ==
    \/ new_database("a", "None", "ok")
    \/ \E name \in TableNames, location \in SpaceLocations, schema \in Schemas :
          database_new_table(name, location, schema, "ok")
    \/ \E name \in TableNames, schema \in Schemas :
          copy_new_table("a", name, "None", schema, "ok")
    \/ \E name \in TableNames : delete_table(name)
    \/ from_file_load_databases

\* The name of a file is the decimal string of a number; a name is held as
\* that number and compared as the string is.
RECURSIVE to_string(_)
to_string(n) == IF n < 10 THEN <<n>> ELSE to_string(n \div 10) \o <<n % 10>>

\* The order of String: byte by byte, a prefix before its extensions.
RECURSIVE StringLess(_, _)
StringLess(a, b) ==
    IF b = <<>> THEN FALSE
    ELSE IF a = <<>> THEN TRUE
    ELSE IF a[1] # b[1] THEN a[1] < b[1]
    ELSE StringLess(Tail(a), Tail(b))

\* self.file_paths.keys().max()
max_file(names) == CHOOSE m \in names : \A x \in names : x = m \/ StringLess(to_string(x), to_string(m))

\* Table::generate_file_name
generate_file_name(names) == IF names = {} THEN 0 ELSE max_file(names) + 1

\* The most files a table is given.
MaxFiles == 12

\* Table::new_file
new_file(io) ==
    /\ UNCHANGED <<pool_vars, wal_vars, page_vars, file_vars>>
    /\ UNCHANGED <<database_paths, databases, table_paths, database_tables>>
    /\ UNCHANGED <<handle, metastore_json, database_json, table_json>>
    /\ Cardinality(file_paths) < MaxFiles
    /\ LET file_name == generate_file_name(file_paths) IN
       IF io = "build"
       THEN /\ UNCHANGED file_paths
            /\ space_last' = SpaceLast("new_file", file_name, "Io")
       ELSE /\ file_paths' = file_paths \cup {file_name}
            /\ space_last' = SpaceLast("new_file", file_name,
                                       IF io = "save" THEN "Io" ELSE "ok")

\* Table::delete_file(name)
delete_file(name) ==
    /\ UNCHANGED <<pool_vars, wal_vars, page_vars, file_vars>>
    /\ UNCHANGED <<database_paths, databases, table_paths, database_tables>>
    /\ UNCHANGED <<handle, metastore_json, database_json, table_json>>
    /\ IF name \in file_paths
       THEN /\ file_paths' = file_paths \ {name}
            /\ space_last' = SpaceLast("delete_file", name, "ok")
       ELSE /\ UNCHANGED file_paths
            /\ space_last' = SpaceLast("delete_file", name, "ObjectNotFound")

TableNext ==
    \/ \E io \in IoOutcomes : new_file(io)
    \/ \E name \in 0..MaxFiles : delete_file(name)

-----------------------------------------------------------------------------
(* Specifications *)

\* the components a specification leaves alone
PoolIdle == PoolInit(Sizes)

PageIdle == PageInit({50}, {TRUE})

FileIdle == FileInit({TestFileSize})

SpaceIdle == SpaceInit

\* The small file under both build profiles.
FileSpecInit ==
    /\ PoolIdle /\ WalInit /\ PageInit({50}, {TRUE, FALSE})
    /\ FileInit({SmallFileSize}) /\ SpaceIdle

FileSpec == FileSpecInit /\ [][FileNext]_vars

\* The file of the tests under both build profiles.
TestFileInit ==
    /\ PoolIdle /\ WalInit /\ PageInit({50}, {TRUE, FALSE})
    /\ FileInit({TestFileSize}) /\ SpaceIdle

TestFileSpec == TestFileInit /\ [][TestFileNext]_vars

\* A metastore and a database.
SpaceInitial == PoolIdle /\ WalInit /\ PageIdle /\ FileIdle /\ SpaceInit

SpaceSpec == SpaceInitial /\ [][SpaceNext]_vars

\* One database and its two handles.
HandleSpec == SpaceInitial /\ [][HandleNext]_vars

\* A table and its files.
TableSpec == SpaceInitial /\ [][TableNext]_vars

\* BufferPool of size 100
Init == PoolInit(Sizes) /\ WalInit /\ PageIdle /\ FileIdle /\ SpaceIdle

Next == PoolNext

Spec == Init /\ [][Next]_vars

\* The buffer pool built with another capacity.
SizeInit ==
    PoolInit(OtherSizes) /\ WalInit /\ PageIdle /\ FileIdle /\ SpaceIdle

SizeSpec == SizeInit /\ [][Next]_vars

\* The tables created on disk after BufferPool::build, as in
\* get_buffer_pool_test: table t and table t1 of database d.
LaterTables == {"d.t", "d.t1"}

\* (catalog_id, file_id, page_id) of the pages loaded: file 0 and file 10 of
\* table t, file 0 of table t1.
LaterTriples == {<<"d.t", "0", 0>>, <<"d.t", "10", 0>>, <<"d.t1", "0", 0>>}

LaterKeys == {KeyOf(t) : t \in LaterTriples}

\* Metastore::new_database and Database::new_table of table c: both save
\* their descriptor, which Catalog::refresh reads.
new_table(c) ==
    /\ pool_status = "ok"
    /\ UNCHANGED <<wal_vars, page_vars, file_vars, space_vars>>
    /\ c \notin disk_tables
    /\ disk_tables' = disk_tables \cup {c}
    /\ pool_last' = Last("new_table", c, 0, "ok", FALSE, <<>>)
    /\ UNCHANGED <<size, pages, page_metas, page_catalogs, catalog_tables, now,
                   pool_status>>

\* BufferPool::build(100, path) on a metastore without databases
CatalogInit ==
    /\ size \in Sizes
    /\ pages = EmptyMap
    /\ page_metas = EmptyMap
    /\ page_catalogs = EmptyMap
    /\ catalog_tables = {}
    /\ disk_tables = {}
    /\ now = StartTime
    /\ pool_status = "ok"
    /\ pool_last = Last("build", "", 0, "ok", FALSE, <<>>)
    /\ WalInit
    /\ PageIdle
    /\ FileIdle
    /\ SpaceIdle

CatalogNext ==
    \/ Tick
    \/ \E c \in LaterTables : new_table(c)
    \/ \E tr \in LaterTriples, ps \in PageSizes :
         load_page(tr[1], tr[2], tr[3], ps)
    \/ \E k \in LaterKeys, ps \in PageSizes : update_page(k, ps)
    \/ \E k \in LaterKeys : get_page(k)
    \/ \E k \in LaterKeys : get_page_catalog(k)

\* BufferPool over a catalog that grows after the pool was built
CatalogSpec == CatalogInit /\ [][CatalogNext]_vars

\* Wal
WalSpecInit == PoolIdle /\ WalInit /\ PageIdle /\ FileIdle /\ SpaceIdle

WalSpec == WalSpecInit /\ [][WalNext]_vars

\* Page under insert and delete_by_slots
PageSpecInit ==
    /\ PoolIdle /\ WalInit /\ PageInit(PageCapacities, {TRUE, FALSE})
    /\ FileIdle /\ SpaceIdle

InsertDeleteSpec == PageSpecInit /\ [][InsertDeleteNext]_vars

\* Page under all its operations
PageSpec == PageSpecInit /\ [][PageNext]_vars

\* The page of the tests: 500 bytes
ExampleInit ==
    /\ PoolIdle /\ WalInit /\ PageInit({ExampleCapacity}, {TRUE, FALSE})
    /\ FileIdle /\ SpaceIdle

ExampleSpec == ExampleInit /\ [][ExampleNext]_vars

\* Page and its checksum
ChecksumSpec == PageSpecInit /\ [][ChecksumNext]_vars

\* Tuple::build on every input.
TupleSpec == PageSpecInit /\ [][TupleNext]_vars

\* get_free_slots on the pages put together by hand
FreeSlotsInit ==
    /\ PoolIdle /\ WalInit /\ HandPageInit
    /\ FileIdle /\ SpaceIdle

FreeSlotsSpec == FreeSlotsInit /\ [][FreeSlotsNext]_vars

\* a page and the page read back from its bytes
RoundTripInit ==
    /\ PoolIdle /\ WalInit /\ PageInit({RoundTripCapacity}, {TRUE, FALSE})
    /\ FileIdle /\ SpaceIdle

RoundTripSpec == RoundTripInit /\ [][RoundTripNext]_vars

-----------------------------------------------------------------------------
(* BufferPool: properties *)

\* C1 (I5): in every state reached through calls that returned normally,
\* pages, page_metas and page_catalogs have the same key set.
C1_SameKeys ==
    pool_status = "ok" =>
        /\ DOMAIN pages = DOMAIN page_metas
        /\ DOMAIN pages = DOMAIN page_catalogs

\* A load_page that ran vacuum, evicted something and returned Ok with other
\* pages still buffered.
C1_Witness ==
    /\ pool_status = "ok"
    /\ pool_last.op = "load_page"
    /\ pool_last.ret = "ok"
    /\ pool_last.vacuumed
    /\ Cardinality(DOMAIN pages) = 2
    /\ UsedBytes(pages) = 94

\* C2 (I6), as claimed: the buffered pages never sum to more than
\* BUFFER_LIMIT_USED_SIZE * size.
C2_UnderHighWater ==
    pool_status = "ok" => UsedBytes(pages) * 100 <= BUFFER_LIMIT_USED_SIZE * size

-----------------------------------------------------------------------------
(* Wal *)

\* The step is the call `op` of the Wal (wal_last describes it).
WalCalled(op) == wal_vars' # wal_vars /\ wal_last'.op = op

\* rows whose encoding holds no byte 0x0A
SafeRows == {r \in WalRows : 10 \notin Range(as_bytes(r))}

RowLists == UNION {[1..n -> SafeRows] : n \in 1..MaxWalRows}

\* C3: when the file holds the rows R, each followed by '\n' and none with a
\* byte 0x0A, and checkpoint is the offset of the k-th row, read returns the
\* rows from the k-th on, in order, and sets checkpoint to the file length.
C3_ReadReturnsTail ==
    [][WalCalled("read") =>
         \A R \in RowLists : \A k \in 1..Len(R) :
            (/\ wal_file = EncodeRows(R)
             /\ checkpoint = Len(EncodeRows(SubSeq(R, 1, k - 1))))
            => /\ wal_last'.ret = "ok"
               /\ wal_last'.rows = SubSeq(R, k, Len(R))
               /\ checkpoint' = Len(wal_file)
      ]_vars

\* A read from a checkpoint inside the file returned the last two of three
\* rows.
C3_Witness ==
    /\ wal_last.op = "read"
    /\ wal_last.ret = "ok"
    /\ Len(wal_last.rows) = 2
    /\ checkpoint = Len(wal_file)
    /\ \E R \in RowLists :
          /\ Len(R) = 3
          /\ wal_file = EncodeRows(R)
          /\ wal_last.rows = SubSeq(R, 2, 3)

\* C4, as claimed: when a read would return the rows R, not empty, vacuum
\* leaves a file that holds the encodings of R and a checkpoint at the start
\* of that file, and the next read returns R.
C4_VacuumKeepsRows ==
    [][WalCalled("vacuum") =>
         LET r == read(wal_file, checkpoint) IN
         (~r.panicked /\ r.rows # <<>>) =>
            /\ wal_last'.ret = "ok"
            /\ wal_file' = EncodeRows(r.rows)
            /\ checkpoint' = 0
            /\ LET n == read(wal_file', checkpoint') IN
               ~n.panicked /\ n.rows = r.rows
      ]_vars

-----------------------------------------------------------------------------
(* Page *)

\* the true value of the end of slot s is at most the offset o
EndsBefore(s, o) ==
    LET hs == IF s[1] < 0 THEN 1 ELSE 0
        ho == IF o < 0 THEN 1 ELSE 0
    IN  hs < ho \/ (hs = ho /\ s[1] + s[2] <= o)

\* C5, as claimed: every slot (o, l) has o + l <= page_size and
\* o >= 14 + 8 * header.slots.
C5_SlotsInsidePage ==
    \A s \in DOMAIN tuples :
       /\ s[1] >= 0
       /\ s[1] + s[2] <= page_size
       /\ s[1] >= 14 + 8 * slots

\* C6, as claimed: header.slots is the number of entries of the map.
C6_SlotsCountEntries == slots = Cardinality(DOMAIN tuples)

\* C7, as claimed: no two slots overlap.
C7_NoOverlap ==
    \A s1, s2 \in DOMAIN tuples :
       s1 # s2 => EndsBefore(s1, s2[1]) \/ EndsBefore(s2, s1[1])

-----------------------------------------------------------------------------
(* BufferPool: eviction *)

\* The scores of the keys of `mt`, as get_page_access_sorted compares them.
ScoreLeq(mt, a, b) == Score(mt, a) <= Score(mt, b)

\* The step is the call `op` of the pool (pool_last describes it).
Called(op) == ~Tick /\ pool_last'.op = op

\* The step is the load of the example: a 92-byte page, under a key that is
\* not buffered and a table of the catalog, into a pool of size 100 that
\* holds three 2-byte pages accessed once.
ExampleLoad ==
    /\ size = 100
    /\ Cardinality(DOMAIN pages) = 3
    /\ \A k \in DOMAIN pages : pages[k] = 2 /\ page_metas[k].count_access = 1
    /\ Called("load_page")
    /\ pool_last'.ps = 92
    /\ pool_last'.key \notin DOMAIN pages
    /\ \E tr \in Triples : KeyOf(tr) = pool_last'.key /\ tr[1] \in catalog_tables

C9_VacuumIffOverBytes ==
    [][(Called("load_page") /\ pool_last'.ret # "err") =>
          (pool_last'.vacuumed =
              ((UsedBytes(pages) + pool_last'.ps) * 100
                   > BUFFER_LIMIT_USED_SIZE * size))
      ]_vars

\* C10, as claimed: update_page on a buffered key returns Ok, stores the
\* page, adds one to the key's count_access and keeps the key in the three
\* maps.
C10_UpdateKeepsKey ==
    [][(Called("update_page") /\ pool_last'.key \in DOMAIN pages) =>
          LET k == pool_last'.key IN
          /\ pool_last'.ret = "ok"
          /\ k \in DOMAIN pages' /\ pages'[k] = pool_last'.ps
          /\ k \in DOMAIN page_metas'
          /\ page_metas'[k].count_access = page_metas[k].count_access + 1
          /\ k \in DOMAIN page_catalogs'
      ]_vars

\* C11: a load_page whose catalog_id is in the catalog ends with Ok(key) and
\* the page buffered under key, or with an error value; it never panics.
C11_LoadPageNeverAborts ==
    [][(Called("load_page") /\ pool_last'.catalog_id \in catalog_tables) =>
          /\ pool_last'.ret \in {"ok", "err"}
          /\ pool_last'.ret = "ok" =>
                /\ pool_last'.key \in DOMAIN pages'
                /\ pages'[pool_last'.key] = pool_last'.ps
      ]_vars

\* C12: the key is a function of (catalog_id, file_id, page_id) only, and
\* distinct triples never share a key: a load_page that returns a key which
\* was buffered before the call is a load for the same table, so the page and
\* the catalog handle under a key are replaced only by a load of the same
\* triple.
C12_OtherTripleKeepsPage ==
    [][(/\ Called("load_page")
        /\ pool_last'.ret = "ok"
        /\ pool_last'.key \in DOMAIN page_catalogs) =>
          page_catalogs'[pool_last'.key] = page_catalogs[pool_last'.key]
      ]_vars

\* C13: get_page, get_page_catalog and update_page called with a key that is
\* not buffered return the error UnknownTableKey and leave pages,
\* page_catalogs and every PageMeta as they were; no vacuum runs.
C13_UnknownKeyNoEffect ==
    [][(/\ \/ Called("get_page")
           \/ Called("get_page_catalog")
           \/ Called("update_page")
        /\ pool_last'.key \notin DOMAIN pages) =>
          /\ pool_last'.ret = "err"
          /\ ~pool_last'.vacuumed
          /\ pages' = pages
          /\ page_catalogs' = page_catalogs
          /\ page_metas' = page_metas
          /\ pool_status' = "ok"
      ]_vars

\* update_page of a 92-byte page under an unknown key returned the error
\* while the pool held other pages, which a vacuum would have evicted.
C13_Witness ==
    /\ pool_last.op = "update_page"
    /\ pool_last.ret = "err"
    /\ pool_last.ps = 92
    /\ pool_last.key \notin DOMAIN pages
    /\ Cardinality(DOMAIN pages) = 2
    /\ UsedBytes(pages) + 92 > BUFFER_LIMIT_USED_SIZE
    /\ DOMAIN page_metas = DOMAIN pages
    /\ DOMAIN page_catalogs = DOMAIN pages

\* C14: a freshly loaded page has count_access 1; a successful get_page(k) or
\* get_page_catalog(k) adds exactly 1 to the count_access of k, sets its
\* last_access to a value not smaller than before, and changes no other
\* PageMeta, no page and no catalog handle.
C14_AccessCountedOnce ==
    [][/\ (Called("load_page") /\ pool_last'.ret = "ok") =>
            page_metas'[pool_last'.key].count_access = 1
       /\ (/\ Called("get_page") \/ Called("get_page_catalog")
           /\ pool_last'.ret = "ok") =>
            LET k == pool_last'.key IN
            /\ DOMAIN page_metas' = DOMAIN page_metas
            /\ page_metas'[k].count_access = page_metas[k].count_access + 1
            /\ page_metas'[k].last_access >= page_metas[k].last_access
            /\ \A j \in DOMAIN page_metas \ {k} : page_metas'[j] = page_metas[j]
            /\ pages' = pages
            /\ page_catalogs' = page_catalogs
      ]_vars

\* get_page_catalog succeeded on a pool of two pages, later than the load of
\* its key: the key has been accessed twice, the other key once.
C14_Witness ==
    /\ pool_last.op = "get_page_catalog"
    /\ pool_last.ret = "ok"
    /\ Cardinality(DOMAIN page_metas) = 2
    /\ page_metas[pool_last.key].count_access = 2
    /\ page_metas[pool_last.key].last_access > StartTime
    /\ \E j \in DOMAIN page_metas \ {pool_last.key} :
         /\ page_metas[j].count_access = 1
         /\ page_metas[j].last_access = StartTime

\* C15: when table t of database d was created on disk after the pool was
\* built and is not yet in the catalog, load_page under "d.t" refreshes the
\* catalog and succeeds, and get_page_catalog of the returned key yields the
\* CatalogTable of d.t.  (The refresh is taken to read the metastore without
\* an I/O error.)
C15_LoadAfterCreate ==
    [][(/\ Called("load_page")
        /\ pool_last'.catalog_id \notin catalog_tables
        /\ pool_last'.catalog_id \in disk_tables
        /\ pool_last'.ret # "err") =>
          /\ pool_last'.ret = "ok"
          /\ pool_last'.catalog_id \in catalog_tables'
          /\ pool_last'.key \in DOMAIN page_catalogs'
          /\ page_catalogs'[pool_last'.key] = pool_last'.catalog_id
      ]_vars

\* C16: a load_page whose catalog_id is neither in the catalog nor on disk
\* (the refresh fails, or succeeds and the id is still absent) returns an
\* error value and inserts nothing into pages, page_metas or page_catalogs.
C16_UnknownTableNoInsert ==
    [][(/\ Called("load_page")
        /\ pool_last'.catalog_id \notin catalog_tables
        /\ pool_last'.catalog_id \notin disk_tables) =>
          LET k == pool_last'.key IN
          /\ pool_last'.ret = "err"
          /\ DOMAIN pages' \subseteq DOMAIN pages
          /\ DOMAIN page_metas' \subseteq DOMAIN page_metas
          /\ DOMAIN page_catalogs' \subseteq DOMAIN page_catalogs
          /\ k \in DOMAIN pages' => pages'[k] = pages[k]
          /\ k \in DOMAIN page_metas' => page_metas'[k] = page_metas[k]
      ]_vars

\* C17: a read called with checkpoint equal to the file length (nothing
\* written since the previous read, or a freshly built empty file) returns
\* the empty sequence and leaves checkpoint equal to the file length.
C17_ReadAtEndIsEmpty ==
    [][(WalCalled("read") /\ checkpoint = Len(wal_file)) =>
          /\ wal_last'.ret = "ok"
          /\ wal_last'.rows = <<>>
          /\ checkpoint' = Len(wal_file')
      ]_vars

\* C18: the bytes write_transaction writes for a row hold no byte 0x0A, so
\* when the file from the checkpoint on is what write_transaction([r]) wrote,
\* read returns exactly [r].
C18_OneRowRoundTrip ==
    [][WalCalled("read") =>
         \A r \in WalRows :
            (/\ checkpoint <= Len(wal_file)
             /\ SubSeq(wal_file, checkpoint + 1, Len(wal_file))
                  = EncodeRows(<<r>>))
            => /\ 10 \notin Range(as_bytes(r))
               /\ wal_last'.ret = "ok"
               /\ wal_last'.rows = <<r>>
      ]_vars

\* C19: the file is append-only: write_transaction(rows) leaves the bytes
\* the file already holds as they are and puts the encodings of rows after
\* them, also on a Wal built on a directory whose file holds rows.
C19_AppendOnly ==
    [][WalCalled("write_transaction") =>
          wal_file' = wal_file \o EncodeRows(wal_last'.rows)
      ]_vars

\* byte p of the page lies behind the slot array and in no tuple
FreeByte(p) ==
    /\ slots >= 0
    /\ 14 + 8 * slots <= p
    /\ p < page_size
    /\ \A s \in DOMAIN tuples : ~(s[1] >= 0 /\ s[1] <= p /\ p < s[1] + s[2])

\* the page has a free run of at least n bytes
HasFreeRun(n) ==
    \E a \in 0..page_size : \A p \in a..(a + n - 1) : FreeByte(p)

\* The step is the call `op` of the page (page_last describes it).
PageCalled(op) == page_calls' # page_calls /\ page_last'.op = op

\* C20: an insert of a well-formed tuple of encoded length L fails with
\* PageOverflow exactly when the page has no free run strictly longer than
\* L, and an insert that fails with PageOverflow or CorruptedTuple leaves the
\* header and the tuples as they were.
C20_OverflowIffNoRun ==
    [][PageCalled("insert") =>
         LET ret == page_last'.ret
             L == IF ret = "ok" THEN page_last'.arg[2]
                  ELSE 21 + page_last'.arg[2]
         IN
         /\ ret # "CorruptedTuple" =>
               (ret = "PageOverflow" <=> ~HasFreeRun(L + 1))
         /\ ret \in {"PageOverflow", "CorruptedTuple"} =>
               /\ slots' = slots
               /\ tuples' = tuples
               /\ page_status' = "ok"
      ]_vars


-----------------------------------------------------------------------------
(* Page: checksum and the example of the tests *)

\* C21: valid_checksum returns true exactly when refresh_checksum was called
\* after the last mutation of the page: a page that was built reports false,
\* a successful insert, a delete_by_slots that removed a slot and an
\* update_by_slot make it report false, refresh_checksum makes it report
\* true, and every other call leaves what it reports as it was.
C21_ValidIffRefreshed ==
    [][LET before == valid_checksum_of(page_size, slots, tuples, checksum)
           after == valid_checksum_of(page_size', slots', tuples', checksum')
           mutation ==
               \/ PageCalled("insert") /\ page_last'.ret = "ok"
               \/ PageCalled("delete_by_slots")
                    /\ DOMAIN tuples' # DOMAIN tuples
               \/ PageCalled("update_by_slot") /\ page_last'.ret = "ok"
       IN
       /\ page_calls = 0 => before = "false"
       /\ mutation => after = "false"
       /\ PageCalled("refresh_checksum") => after = "true"
       /\ PageCalled("valid_checksum") =>
             /\ page_last'.ret = before
             /\ after = before
      ]_vars


\* The step is an insert of the i-th tuple of the example.
InsertOf(i) ==
    /\ PageCalled("insert")
    /\ IF page_last'.ret = "ok"
       THEN tuples'[page_last'.arg] = ExampleTuple(i)
       ELSE page_last'.arg[1] = ExampleNulls[i]

\* The three tuples of the example inserted in their order into the empty
\* page of 500 bytes take the slots <<446, 54>>, s2, s3, and get_free_slots
\* then returns free.
ExampleChain(s2, s3, free) ==
    LET one == (<<446, 54>> :> ExampleTuple(1))
        two == one @@ (s2 :> ExampleTuple(2))
        three == two @@ (s3 :> ExampleTuple(3))
    IN
    /\ (InsertOf(1) /\ tuples = EmptyMap /\ slots = 0) =>
          tuples' = one /\ slots' = 1
    /\ (InsertOf(2) /\ tuples = one /\ slots = 1) =>
          tuples' = two /\ slots' = 2
    /\ (InsertOf(3) /\ tuples = two /\ slots = 2) =>
          /\ tuples' = three /\ slots' = 3
          /\ LET f == get_free_slots(tuples', page_size', slots',
                                     overflow_checks')
             IN  ~f.panicked /\ f.runs = free

\* C22, as claimed: tuples with 33, 17 and 25 bytes of data inserted in that
\* order into an empty page of 500 bytes take the slots (446, 54), (334, 38)
\* and (234, 46), and get_free_slots returns (38, 196), (280, 54), (372, 74).
C22_Claimed ==
    [][ExampleChain(<<334, 38>>, <<234, 46>>,
                    <<(<<38, 196>>), (<<280, 54>>), (<<372, 74>>)>>)
      ]_vars

\* C22, amended: the three tuples take the slots (446, 54), (408, 38) and
\* (362, 46), each at the end of the one free run, and get_free_slots
\* returns (38, 324).
C22_Amended ==
    [][ExampleChain(<<408, 38>>, <<362, 46>>, <<(<<38, 324>>)>>)
      ]_vars

\* The third tuple of the example was inserted after the first two, as the
\* third call on the page.
C22_Witness ==
    /\ page_size = ExampleCapacity
    /\ page_calls = 3
    /\ slots = 3
    /\ page_last = PageLast("insert", <<362, 46>>, "ok")
    /\ tuples = (<<446, 54>> :> ExampleTuple(1))
                  @@ (<<408, 38>> :> ExampleTuple(2))
                  @@ (<<362, 46>> :> ExampleTuple(3))


-----------------------------------------------------------------------------
(* File *)

\* A step that is a call of the File operation op.
FileCalled(op) == file_vars' # file_vars /\ file_last'.op = op

\* C23: insert_page succeeds exactly when the header bytes and the pages up
\* to the new one, 13 + (n + 1) * page_size for n pages held, fit in
\* file_size; an insert that does not succeed answers PageOverflow and
\* leaves the header and the pages as they were.  (A page size that stands
\* for 2^32 - k fits no file.)
C23_InsertIffFits ==
    [][FileCalled("insert_page") =>
         LET n == Cardinality(DOMAIN file_pages)
             ps == file_last'.arg.page_size
         IN /\ (file_last'.ret = "ok")
                  <=> (ps >= 0 /\ FILE_HEADER_SIZE + (n + 1) * ps <= file_size)
            /\ file_last'.ret # "ok" =>
                  /\ file_last'.ret = "PageOverflow"
                  /\ file_pages' = file_pages
                  /\ file_size' = file_size]_vars


\* A step that is insert_page of a page of the tests on the file of the tests.
TestInsert == FileCalled("insert_page") /\ file_size = TestFileSize /\ file_last'.arg = TestPage

\* C24 as stated: the file of 5010 bytes takes a page of 500 bytes exactly
\* while it holds fewer than 10, so ten inserts succeed and the 11th fails.
C24_Claimed ==
    [][TestInsert =>
         ((file_last'.ret = "ok") <=> Cardinality(DOMAIN file_pages) < 10)]_vars

\* C24 amended: the file of 5010 bytes takes a page of 500 bytes exactly
\* while it holds fewer than 9, so nine inserts succeed and the 10th is
\* rejected with PageOverflow, the pages unchanged.
C24_Amended ==
    [][TestInsert =>
         /\ (file_last'.ret = "ok") <=> Cardinality(DOMAIN file_pages) < 9
         /\ file_last'.ret # "ok" =>
               file_last'.ret = "PageOverflow" /\ file_pages' = file_pages]_vars

\* Nine pages are held, at the indexes 0 to 8, and the next insert was
\* rejected.
C24_Witness ==
    /\ file_size = TestFileSize
    /\ DOMAIN file_pages = 0..8
    /\ file_last.op = "insert_page"
    /\ file_last.ret = "PageOverflow"


\* C25: after any sequence of insert_page, delete_by_index and
\* update_by_index every page held at an index i ends within the file:
\* 13 + (i + 1) * page_size <= file_size.
C25_HeldPagesFit ==
    \A i \in DOMAIN file_pages :
        /\ file_pages[i].page_size >= 0
        /\ FILE_HEADER_SIZE + (i + 1) * file_pages[i].page_size <= file_size


\* A step that is delete_by_index or update_by_index of an index that holds
\* no page.
AbsentIndexCall ==
    \/ FileCalled("delete_by_index") /\ file_last'.arg \notin DOMAIN file_pages
    \/ FileCalled("update_by_index") /\ file_last'.arg[1] \notin DOMAIN file_pages

\* A step that is select_by_indexes with an index that holds no page.
AbsentIndexSelect ==
    FileCalled("select_by_indexes") /\ file_last'.arg \ DOMAIN file_pages # {}

\* C26 as stated: delete_by_index, update_by_index and select_by_indexes
\* given an index that holds no page fail with InvalidIndex and leave the
\* pages unchanged.
C26_Claimed ==
    [][AbsentIndexCall \/ AbsentIndexSelect =>
         file_last'.ret = "InvalidIndex" /\ file_pages' = file_pages]_vars

\* C26 amended: delete_by_index and update_by_index of an index that holds
\* no page fail with InvalidIndex; select_by_indexes succeeds and returns
\* the pages of those of its indexes that hold one; the pages are unchanged
\* in the three cases.
C26_Amended ==
    [][/\ AbsentIndexCall =>
            file_last'.ret = "InvalidIndex" /\ file_pages' = file_pages
       /\ AbsentIndexSelect =>
            /\ file_last'.ret = "ok"
            /\ file_last'.out = Restrict(file_pages, file_last'.arg \cap DOMAIN file_pages)
            /\ file_pages' = file_pages]_vars

\* A file that holds pages has answered a delete_by_index of an index
\* without page.
C26_Witness ==
    /\ file_last.op = "delete_by_index"
    /\ file_last.ret = "InvalidIndex"
    /\ DOMAIN file_pages # {}
    /\ file_last.arg \notin DOMAIN file_pages


\* C27: for every file reached from build by insert_page, delete_by_index
\* and update_by_index, without pages or with several different pages,
\* File::from_bytes(file.as_bytes()) succeeds and is the file: the same
\* header and the same page under every index.
C27_RoundTrip ==
    [][FileCalled("as_bytes_from_bytes") =>
         /\ file_last'.ret = "ok"
         /\ file_last'.out.file_size = file_size
         /\ file_last'.out.pages = file_pages]_vars


\* C28: a successful insert_page, after any earlier insert_page and
\* delete_by_index, adds one index that held no page and leaves the page
\* under every other index as it was.
C28_InsertAddsOneIndex ==
    [][FileCalled("insert_page") /\ file_last'.ret = "ok" =>
         /\ file_last'.out \notin DOMAIN file_pages
         /\ DOMAIN file_pages' = DOMAIN file_pages \cup {file_last'.out}
         /\ \A i \in DOMAIN file_pages : file_pages'[i] = file_pages[i]]_vars


-----------------------------------------------------------------------------
(* Metastore, Database and Table *)

\* A step that is a call of the tablespace operation op that the file
\* system did not fail.
SpaceCalled(op) == space_vars' # space_vars /\ space_last'.op = op /\ space_last'.ret # "Io"

\* What C29 says of a new_database or new_table of name on a parent with
\* the path map paths and the object map objects.
NewChildOutcome(name, paths, objects, paths_after, objects_after) ==
    IF name \in DOMAIN paths
    THEN /\ space_last'.ret = "ObjectExists"
         /\ paths_after = paths
         /\ objects_after = objects
    ELSE /\ space_last'.ret = "ok"
         /\ name \in DOMAIN paths_after
         /\ name \in DOMAIN objects_after

\* C29: new_database and new_table fail with ObjectExists when the name is
\* a key of the parent's path map, and leave its path map and its object
\* map unchanged; when they succeed the name is a key of both maps.
C29_ExistingNameRejected ==
    [][/\ SpaceCalled("new_database") =>
            NewChildOutcome(space_last'.name, database_paths, databases,
                            database_paths', databases')
       /\ SpaceCalled("new_table") =>
            NewChildOutcome(space_last'.name, table_paths, database_tables,
                            table_paths', database_tables')]_vars

\* A metastore that holds a database has refused to create it again.
C29_Witness ==
    /\ space_last.op = "new_database"
    /\ space_last.ret = "ObjectExists"
    /\ space_last.name \in DOMAIN database_paths
    /\ space_last.name \in DOMAIN databases


\* C30: new_file names the new file by the number after the greatest name
\* of the table read as a number, or "0" in a table without files: the
\* calls on an empty table return 0, 1, 2, ... for any number of calls, and
\* a returned name is never that of a file the table holds.
C30_NextFileName ==
    [][SpaceCalled("new_file") =>
         /\ space_last'.name = IF file_paths = {} THEN 0 ELSE MaxOf(file_paths) + 1
         /\ space_last'.name \notin file_paths]_vars


-----------------------------------------------------------------------------
(* Tuple *)

\* C31: Tuple::build returns a tuple exactly when nulls has one byte per
\* field of the schema and data has the summed widths of the fields whose
\* null byte is 0; for any other input it fails with CorruptedTuple.
C31_BuildIffWellFormed ==
    [][page_last' # page_last /\ page_last'.op = "Tuple::build" =>
         LET nulls == page_last'.arg[1]
             len == page_last'.arg[2]
             well_formed ==
                 /\ Len(nulls) = Len(TestSchema)
                 /\ len = SumOver([i \in 1..Len(TestSchema) |->
                                      IF nulls[i] = 0 THEN TestSchema[i] ELSE 0],
                                  1..Len(TestSchema))
         IN (page_last'.ret # <<>>) <=> well_formed]_vars


\* The descriptors on disk.
disk == <<metastore_json, database_json, table_json>>

\* C32: delete_database and delete_table of a name that is not in the
\* path map of the parent fail with ObjectNotFound and change neither the
\* maps in memory nor the disk.
C32_DeleteUnknownNotFound ==
    [][/\ SpaceCalled("delete_database")
            /\ space_last'.name \notin DOMAIN database_paths =>
                /\ space_last'.ret = "ObjectNotFound"
                /\ UNCHANGED <<database_paths, databases, disk>>
       /\ SpaceCalled("delete_table")
            /\ space_last'.name \notin DOMAIN table_paths =>
                /\ space_last'.ret = "ObjectNotFound"
                /\ UNCHANGED <<table_paths, database_tables, disk>>]_vars


\* The last call succeeded and was one that creates or deletes a database.
MetastoreChanged(last) == last.ret = "ok" /\ last.op \in {"new_database", "delete_database"}

\* The last call succeeded and was one that creates or deletes a table.
DatabaseChanged(last) == last.ret = "ok" /\ last.op \in {"new_table", "delete_table"}

\* C33: after a successful new_database or delete_database the saved
\* descriptor of the metastore holds the path map of the metastore, after a
\* successful new_table or delete_table the saved descriptor of the
\* database holds the path map of the database, and a from_file with
\* load_databases that follows succeeds.
C33_DescriptorFollowsMaps ==
    [][/\ space_vars' # space_vars /\ MetastoreChanged(space_last') =>
            metastore_json' = database_paths'
       /\ space_vars' # space_vars /\ DatabaseChanged(space_last') =>
            /\ handle.location \in DOMAIN database_json'
            /\ database_json'[handle.location].table_paths = table_paths'
       /\ MetastoreChanged(space_last) /\ space_last'.op = "from_file" =>
            space_last'.ret = "ok"]_vars


\* C34: a new_database or new_table that fails with ObjectExists leaves the
\* saved descriptor of the database or table that exists under the name as
\* it was.
C34_RejectedKeepsDescriptor ==
    [][/\ SpaceCalled("new_database") /\ space_last'.ret = "ObjectExists"
            /\ database_paths[space_last'.name] \in DOMAIN database_json =>
                /\ database_paths[space_last'.name] \in DOMAIN database_json'
                /\ database_json'[database_paths[space_last'.name]]
                     = database_json[database_paths[space_last'.name]]
       /\ SpaceCalled("new_table") /\ space_last'.ret = "ObjectExists"
            /\ table_paths[space_last'.name] \in DOMAIN table_json =>
                /\ table_paths[space_last'.name] \in DOMAIN table_json'
                /\ table_json'[table_paths[space_last'.name]]
                     = table_json[table_paths[space_last'.name]]]_vars


\* A step that is a successful new_table through the Database the caller
\* holds or through the copy the metastore keeps of the same database.
NewTableThroughEither ==
    /\ SpaceCalled("new_table") \/ SpaceCalled("copy_new_table")
    /\ space_last'.ret = "ok"
    /\ handle.name \in DOMAIN databases
    /\ databases[handle.name].location = handle.location

\* C40: when the two handles of one database create tables in any order,
\* the saved descriptor of the database lists every table that either of
\* them holds.
C40_NoLostTable ==
    [][NewTableThroughEither =>
         /\ handle.location \in DOMAIN database_json'
         /\ (DOMAIN table_paths' \cup DOMAIN databases'[handle.name].table_paths)
               \subseteq DOMAIN database_json'[handle.location].table_paths]_vars

(* Page::get_free_slots *)

\* byte p of the page lies in no tuple
Uncovered(p) == \A s \in DOMAIN tuples : ~(s[1] <= p /\ p < s[1] + s[2])

\* the maximal runs of uncovered bytes of [p, page_size), by offset
RECURSIVE GapsFrom(_)
GapsFrom(p) ==
    IF p >= page_size THEN <<>>
    ELSE IF ~Uncovered(p) THEN GapsFrom(p + 1)
    ELSE LET e == CHOOSE q \in (p + 1)..page_size :
                     /\ \A r \in p..(q - 1) : Uncovered(r)
                     /\ q = page_size \/ ~Uncovered(q)
         IN  <<<<p, e - p>>>> \o GapsFrom(e)

\* C36: on a page whose header counts its slots, whose slots lie in
\* [14 + 8 * slots, page_size) and do not overlap, get_free_slots returns,
\* by ascending offset, exactly the maximal non-empty runs of bytes of
\* [14 + 8 * slots, page_size) that no slot covers, also when a tuple starts
\* at 14 + 8 * slots, when one ends at page_size and when two are adjacent.
C36_FreeSlotsAreGaps ==
    page_last.op = "get_free_slots" =>
       page_last.ret = [panicked |-> FALSE,
                        runs |-> GapsFrom(14 + 8 * slots)]

\* a tuple at 14 + 8 * slots, two adjacent tuples, a tuple that ends at
\* page_size and a run between them
C36_Witness ==
    /\ page_last.op = "get_free_slots"
    /\ \E s \in DOMAIN tuples : s[1] = 14 + 8 * slots
    /\ \E s \in DOMAIN tuples : s[1] + s[2] = page_size
    /\ \E s, t \in DOMAIN tuples : s[1] + s[2] = t[1]
    /\ page_last.ret.runs # <<>>

(* Page::insert: the place of the tuple *)

\* the runs of gaps longer than L
LongerThan(gaps, L) == {gaps[i] : i \in {j \in 1..Len(gaps) : gaps[j][2] > L}}

\* the shortest of the runs, the one of the lowest offset among equals
BestFit(runs) ==
    CHOOSE r \in runs :
       \A q \in runs : r[2] < q[2] \/ (r[2] = q[2] /\ r[1] <= q[1])

\* C35: an insert of a tuple of encoded length L that succeeds puts it into
\* the smallest run of bytes behind the slot array and in no tuple that is
\* longer than L (the one of the lowest offset among equals), at the end of
\* that run; it adds the slot (offset, L) and nothing else to the map and
\* adds 1 to header.slots.
C35_InsertBestFit ==
    [][(PageCalled("insert") /\ page_last'.ret = "ok") =>
         LET slot == page_last'.arg
             L == slot[2]
             runs == LongerThan(GapsFrom(14 + 8 * slots), L)
         IN
         /\ runs # {}
         /\ slot = <<BestFit(runs)[1] + BestFit(runs)[2] - L, L>>
         /\ slot \notin DOMAIN tuples
         /\ DOMAIN tuples' = DOMAIN tuples \cup {slot}
         /\ bytes_size(tuples'[slot]) = L
         /\ \A s \in DOMAIN tuples : tuples'[s] = tuples[s]
         /\ slots' = slots + 1
      ]_vars

(* Page: the length of a stored tuple *)

\* C38: after every insert, delete_by_slots and update_by_slot the encoded
\* length of each stored tuple is the length of its slot, an update_by_slot
\* that returns Ok has stored under its slot a tuple of that length, and
\* as_bytes, when it returns, yields page_size bytes.
C38_LengthMatchesSlot ==
    [][(\/ PageCalled("insert")
        \/ PageCalled("delete_by_slots")
        \/ PageCalled("update_by_slot")) =>
         /\ (page_last'.op = "update_by_slot" /\ page_last'.ret = "ok") =>
               bytes_size(tuples'[page_last'.arg]) = page_last'.arg[2]
         /\ \A s \in DOMAIN tuples' : bytes_size(tuples'[s]) = s[2]
         /\ LET b == page_as_bytes(page_size', slots', tuples')
            IN  ~b.panicked => Len(b.bytes) = page_size'
      ]_vars

(* Page: the checksum of the page read back *)

\* C39: right after refresh_checksum on a page that holds two or more
\* tuples, valid_checksum returns true on the page and on the page read back
\* from its bytes, in whatever order the slot map of either is iterated.
C39_ChecksumSurvivesRoundTrip ==
    [][(/\ page_last.op = "refresh_checksum"
        /\ page_last.ret = "ok"
        /\ Cardinality(DOMAIN tuples) >= 2
        /\ \/ PageCalled("valid_checksum")
           \/ PageCalled("from_bytes.valid_checksum")) =>
         page_last'.ret = "true"
      ]_vars

(* BufferPool: the order of eviction *)

\* the keys whose PageMeta the step removed, and those it left.  load_page
\* gives its key a new PageMeta after the vacuum, whether the vacuum evicted
\* the key or not: that key counts as neither.
Evicted == DOMAIN page_metas \ DOMAIN page_metas'

Kept ==
    (DOMAIN page_metas \cap DOMAIN page_metas')
       \ (IF pool_last'.op = "load_page" THEN {pool_last'.key} ELSE {})

\* k was read more often than every other buffered page, and not earlier
\* than any of them
MostRead(k) ==
    \A j \in DOMAIN page_metas \ {k} :
       /\ page_metas[k].count_access > page_metas[j].count_access
       /\ page_metas[k].last_access >= page_metas[j].last_access

=============================================================================
